---- MODULE Spec2Model ----
(***************************************************************************)
(* Model of the MCP stdio server of telegram-copilot-bridge (mcpServer.ts, *)
(* kept in src/unnamed/part_003 lines 357-1002) together with the parts of *)
(* SessionStore (src/unnamed/part_006) and TelegramClient                  *)
(* (src/src/telegram.ts) its tool handlers call.                           *)
(*                                                                         *)
(* The input stream is a sequence of bytes.  A byte is one of              *)
(*   "CR" "LF" "SP"          the ASCII bytes \r \n and space               *)
(*   "H"                     the ASCII text  Content-Length:               *)
(*   "X"                     the ASCII text of some other header line      *)
(*   "0".."9"                ASCII digits                                  *)
(*   "{" "}" "[" "]" ","     JSON punctuation                              *)
(*   "N"                     the JSON literal null                         *)
(*   "!"                     a byte that can start no JSON value           *)
(*   field tokens (FieldToks) the member text of one JSON object           *)
(*   "e1" "e2" "e3"          the three bytes of one UTF-8 encoded          *)
(*                           character of the Basic Multilingual Plane     *)
(* A JSON object is written  { <field token> [<id digit>] <wide chars> }.  *)
(***************************************************************************)
EXTENDS Integers, Sequences, FiniteSets, TLC

\* ------------------------------------------------------------------ bounds
\* Largest number of payloads the client writes to stdin in one run.
MaxPayloads == 2

\* ----------------------------------------------------------- byte alphabet
Digits == <<"0", "1", "2", "3", "4", "5", "6", "7", "8", "9">>

DigitSet == {Digits[i] : i \in 1..10}

DigitVal(d) == (CHOOSE i \in 1..10 : Digits[i] = d) - 1

\* \s of the regular expressions and of String.prototype.trim, restricted to
\* the alphabet.
WhiteSpace == {"SP", "CR", "LF"}

\* Characters of a decoded string that occupy three bytes in UTF-8: a decoded
\* multibyte character and U+FFFD, the replacement character.
WideChars == {"U", "?"}

\* The member text of the JSON objects the model's client can send.
\*   jsonrpc  the value of the jsonrpc member
\*   method   the value of the method member ("undefined" when absent)
\*   tool     params.name of a tools/call request
\*   echo     TRUE when the object's wide characters appear in the response
\*            (in the echoed method name, tool name or stored content)
TokInfo ==
  [ mI      |-> [jsonrpc |-> "2.0", method |-> "initialize", tool |-> "", echo |-> FALSE],
    mL      |-> [jsonrpc |-> "2.0", method |-> "tools/list", tool |-> "", echo |-> FALSE],
    mN      |-> [jsonrpc |-> "2.0", method |-> "notifications/initialized", tool |-> "", echo |-> FALSE],
    mU      |-> [jsonrpc |-> "2.0", method |-> "ping", tool |-> "", echo |-> TRUE],
    cAppend |-> [jsonrpc |-> "2.0", method |-> "tools/call", tool |-> "session_append", echo |-> TRUE],
    cSend   |-> [jsonrpc |-> "2.0", method |-> "tools/call", tool |-> "telegram_send_message", echo |-> FALSE],
    cBogus  |-> [jsonrpc |-> "2.0", method |-> "tools/call", tool |-> "no_such_tool", echo |-> TRUE],
    v1I     |-> [jsonrpc |-> "1.0", method |-> "initialize", tool |-> "", echo |-> FALSE],
    noM     |-> [jsonrpc |-> "2.0", method |-> "undefined", tool |-> "", echo |-> FALSE] ]

FieldToks == DOMAIN TokInfo

NoId == "undefined"

\* ------------------------------------------------------- sequence helpers
RECURSIVE Flatten(_)
Flatten(ss) == IF ss = <<>> THEN <<>> ELSE Head(ss) \o Flatten(Tail(ss))

\* buffer.subarray(from, to) / string.slice(from, to), 0-based, end exclusive
Slice(s, from, to) ==
  LET f == IF from < 0 THEN 0 ELSE IF from > Len(s) THEN Len(s) ELSE from
      t == IF to < f THEN f ELSE IF to > Len(s) THEN Len(s) ELSE to
  IN  SubSeq(s, f + 1, t)

SliceFrom(s, from) == Slice(s, from, Len(s))

\* -------------------------------------------------------- UTF-8 decoding
\* buffer.toString('utf8'): a complete e1 e2 e3 sequence decodes to one
\* character; a truncated sequence and a stray continuation byte decode to
\* one replacement character each.
RECURSIVE Utf8Decode(_)
Utf8Decode(b) ==
  IF b = <<>> THEN <<>>
  ELSE IF b[1] = "e1"
       THEN IF Len(b) >= 3 /\ b[2] = "e2" /\ b[3] = "e3"
            THEN <<"U">> \o Utf8Decode(SliceFrom(b, 3))
            ELSE IF Len(b) >= 2 /\ b[2] = "e2"
                 THEN <<"?">> \o Utf8Decode(SliceFrom(b, 2))
                 ELSE <<"?">> \o Utf8Decode(Tail(b))
       ELSE IF b[1] \in {"e2", "e3"}
            THEN <<"?">> \o Utf8Decode(Tail(b))
            ELSE <<b[1]>> \o Utf8Decode(Tail(b))

\* Buffer.from(text, 'utf8'): a written string holds only whole characters.
RECURSIVE Utf8Encode(_)
Utf8Encode(t) ==
  IF t = <<>> THEN <<>>
  ELSE (IF Head(t) \in WideChars THEN <<"e1", "e2", "e3">> ELSE <<Head(t)>>)
       \o Utf8Encode(Tail(t))

\* Buffer.byteLength(text, 'utf8')
RECURSIVE ByteLength(_)
ByteLength(t) ==
  IF t = <<>> THEN 0
  ELSE (IF Head(t) \in WideChars THEN 3 ELSE 1) + ByteLength(Tail(t))

\* String.prototype.trim
RECURSIVE TrimLeft(_)
TrimLeft(t) ==
  IF t # <<>> /\ Head(t) \in WhiteSpace THEN TrimLeft(Tail(t)) ELSE t

RECURSIVE TrimRight(_)
TrimRight(t) ==
  IF t # <<>> /\ t[Len(t)] \in WhiteSpace
  THEN TrimRight(SubSeq(t, 1, Len(t) - 1)) ELSE t

Trim(t) == TrimRight(TrimLeft(t))

\* text.indexOf(c), 0-based, -1 when absent
IndexOf(t, c) ==
  IF \E i \in 1..Len(t) : t[i] = c
  THEN (CHOOSE i \in 1..Len(t) : t[i] = c /\ \A j \in 1..(i - 1) : t[j] # c) - 1
  ELSE -1

\* The decimal numeral of a natural number (template literal `${n}`).
RECURSIVE Numeral(_)
Numeral(n) ==
  IF n < 10 THEN <<Digits[n + 1]>> ELSE Numeral(n \div 10) \o <<Digits[(n % 10) + 1]>>

\* Number(digits) for a non-empty string of decimal digits
RECURSIVE NumberOf(_)
NumberOf(ds) ==
  IF ds = <<>> THEN 0 ELSE 10 * NumberOf(SubSeq(ds, 1, Len(ds) - 1)) + DigitVal(ds[Len(ds)])

AllIn(t, S) == \A i \in 1..Len(t) : t[i] \in S

\* ------------------------------------------------------------ JSON.parse
\* A parsed JSON value of the alphabet: an object, null or a number.
NullItem ==
  [kind |-> "null", jsonrpc |-> "undefined", method |-> "undefined", tool |-> "",
   id |-> NoId, wide |-> 0, echo |-> FALSE]

NumberItem ==
  [kind |-> "number", jsonrpc |-> "undefined", method |-> "undefined", tool |-> "",
   id |-> NoId, wide |-> 0, echo |-> FALSE]

ObjectItem(tok, id, wide) ==
  [kind |-> "object", jsonrpc |-> TokInfo[tok].jsonrpc, method |-> TokInfo[tok].method,
   tool |-> TokInfo[tok].tool, id |-> id, wide |-> wide, echo |-> TokInfo[tok].echo]

ParseFailure == [ok |-> FALSE, isArray |-> FALSE, items |-> <<>>]

\* One JSON value that is not an array: { tok [digit] wide* }, null, digits.
IsScalarText(seg) ==
  \/ seg = <<"N">>
  \/ seg # <<>> /\ AllIn(seg, DigitSet)
  \/ /\ Len(seg) >= 3
     /\ seg[1] = "{" /\ seg[Len(seg)] = "}" /\ seg[2] \in FieldToks
     /\ LET inner == SubSeq(seg, 3, Len(seg) - 1)
            rest  == IF inner # <<>> /\ inner[1] \in DigitSet THEN Tail(inner) ELSE inner
        IN  AllIn(rest, WideChars)

ScalarOf(seg) ==
  IF seg = <<"N">> THEN NullItem
  ELSE IF AllIn(seg, DigitSet) THEN NumberItem
  ELSE LET inner == SubSeq(seg, 3, Len(seg) - 1)
           hasId == inner # <<>> /\ inner[1] \in DigitSet
       IN  ObjectItem(seg[2], IF hasId THEN inner[1] ELSE NoId,
                      IF hasId THEN Len(inner) - 1 ELSE Len(inner))

\* text.split(c)
RECURSIVE SplitOn(_, _)
SplitOn(t, c) ==
  LET i == IndexOf(t, c)
  IN  IF i = -1 THEN <<t>> ELSE <<Slice(t, 0, i)>> \o SplitOn(SliceFrom(t, i + 1), c)

\* JSON.parse(text): surrounding white space is skipped; the value is one
\* scalar or an array of scalars.  ok = FALSE stands for the SyntaxError.
JsonParse(text) ==
  LET t == Trim(text)
  IN  IF t = <<>> THEN ParseFailure
      ELSE IF t[1] = "[" /\ Len(t) >= 2 /\ t[Len(t)] = "]"
      THEN LET inner == SubSeq(t, 2, Len(t) - 1)
               segs  == IF inner = <<>> THEN <<>> ELSE SplitOn(inner, ",")
           IN  IF \A i \in 1..Len(segs) : IsScalarText(segs[i])
               THEN [ok |-> TRUE, isArray |-> TRUE,
                     items |-> [i \in 1..Len(segs) |-> ScalarOf(segs[i])]]
               ELSE ParseFailure
      ELSE IF IsScalarText(t)
           THEN [ok |-> TRUE, isArray |-> FALSE, items |-> <<ScalarOf(t)>>]
           ELSE ParseFailure

\* ------------------------------------------------------- payload checks
isRpcRequest(value) ==
  /\ value.kind = "object"
  /\ value.jsonrpc = "2.0"
  /\ value.method # "undefined"

isRpcPayload(parsed) ==
  \A i \in 1..Len(parsed.items) : isRpcRequest(parsed.items[i])

\* --------------------------------------------------------------- framing
\* A match of /\r?\n\r?\n/ that starts at the 1-based position i of text:
\* its length, 0 when there is none.
SeparatorAt(text, i) ==
  LET c(k) == IF i + k <= Len(text) THEN text[i + k] ELSE "eof"
  IN  IF c(0) = "CR"
      THEN IF c(1) = "LF" /\ c(2) = "CR" /\ c(3) = "LF" THEN 4
           ELSE IF c(1) = "LF" /\ c(2) = "LF" THEN 3 ELSE 0
      ELSE IF c(0) = "LF"
           THEN IF c(1) = "CR" /\ c(2) = "LF" THEN 3
                ELSE IF c(1) = "LF" THEN 2 ELSE 0
           ELSE 0

\* Mutant: the separator is taken to be two bytes wide whatever matched.
SeparatorLengthLfOnly(matchLen) == 2

\* The separator width findHeaderSeparator reports for a match.
SeparatorLength(matchLen) == IF matchLen = 4 THEN 4 ELSE 2

NoSeparator == [found |-> FALSE, index |-> 0, length |-> 0]

\* index is the 0-based position of the leftmost match in the decoded text.
findHeaderSeparator(buffer) ==
  LET text == Utf8Decode(buffer)
      hits == {i \in 1..Len(text) : SeparatorAt(text, i) > 0}
  IN  IF hits = {} THEN NoSeparator
      ELSE LET i == CHOOSE h \in hits : \A g \in hits : h <= g
           IN  [found |-> TRUE, index |-> i - 1,
                length |-> SeparatorLength(SeparatorAt(text, i))]

\* header.split(/\r?\n/)
SplitLines(text) ==
  LET raw == SplitOn(text, "LF")
  IN  [i \in 1..Len(raw) |->
         IF i < Len(raw) /\ raw[i] # <<>> /\ raw[i][Len(raw[i])] = "CR"
         THEN SubSeq(raw[i], 1, Len(raw[i]) - 1) ELSE raw[i]]

\* line.match(/^\s*content-length\s*:\s*(\d+)\s*$/i): the digits of group 1,
\* <<>> when the line does not match.
ContentLengthDigits(line) ==
  LET l == Trim(line)
  IN  IF l # <<>> /\ l[1] = "H"
      THEN LET ds == TrimLeft(Tail(l))
           IN  IF ds # <<>> /\ AllIn(ds, DigitSet) THEN ds ELSE <<>>
      ELSE <<>>

\* The first matching header line: [found, length].
contentLengthMatch(header) ==
  LET lines == SplitLines(header)
      hits  == {i \in 1..Len(lines) : ContentLengthDigits(lines[i]) # <<>>}
  IN  IF hits = {} THEN [found |-> FALSE, length |-> 0]
      ELSE LET i == CHOOSE h \in hits : \A g \in hits : h <= g
           IN  [found |-> TRUE, length |-> NumberOf(ContentLengthDigits(lines[i]))]

NoBare == [found |-> FALSE, payload |-> ParseFailure, consumedBytes |-> 0]

parseCandidate(candidate, consumedBytes) ==
  LET parsed == JsonParse(candidate)
  IN  IF parsed.ok /\ isRpcPayload(parsed)
      THEN [found |-> TRUE, payload |-> parsed, consumedBytes |-> consumedBytes]
      ELSE NoBare

\* Mutant: the bare request is reported with no bytes to consume.
tryReadBareJsonRequestKeepsBytes(buffer) ==
  LET text       == Utf8Decode(buffer)
      trimmed    == Trim(text)
      wholeMatch == parseCandidate(trimmed, 0)
      lineBreakIndex == IndexOf(text, "LF")
      firstLine  == Trim(Slice(text, 0, lineBreakIndex))
  IN  IF trimmed = <<>> THEN NoBare
      ELSE IF wholeMatch.found THEN wholeMatch
      ELSE IF lineBreakIndex # -1 /\ firstLine # <<>>
           THEN parseCandidate(firstLine, 0)
           ELSE NoBare

tryReadBareJsonRequest(buffer) ==
  LET text       == Utf8Decode(buffer)
      trimmed    == Trim(text)
      wholeMatch == parseCandidate(trimmed, ByteLength(text))
      lineBreakIndex == IndexOf(text, "LF")
      firstLine  == Trim(Slice(text, 0, lineBreakIndex))
  IN  IF trimmed = <<>> THEN NoBare
      ELSE IF wholeMatch.found THEN wholeMatch
      ELSE IF lineBreakIndex # -1 /\ firstLine # <<>>
           THEN parseCandidate(firstLine, ByteLength(Slice(text, 0, lineBreakIndex + 1)))
           ELSE NoBare

\* ------------------------------------------------------------- responses
Null == "null"

\* request.id ?? null
IdOrNull(request) == IF request.id = NoId THEN Null ELSE request.id

\* The responses handleRequest builds.  what names the result or the error:
\* it stands for the members of result, or for the text of error.message.
\* wide counts the multibyte characters the response repeats from the request.
ResultResponse(request, what) ==
  [id |-> IdOrNull(request), kind |-> "result", code |-> 0, what |-> what,
   wide |-> IF request.echo THEN request.wide ELSE 0]

ErrorResponse(request, code, what) ==
  [id |-> IdOrNull(request), kind |-> "error", code |-> code, what |-> what,
   wide |-> IF request.echo THEN request.wide ELSE 0]

\* The member text of a response object, as one character of the alphabet.
ResponseTok(response) ==
  IF response.kind = "result"
  THEN (IF response.what = "initialize" THEN "rI"
        ELSE IF response.what = "tools" THEN "rL" ELSE "rC")
  ELSE (IF response.code = -32601 THEN "e601" ELSE "e000")

ResponseToks == {"rI", "rL", "rC", "e601", "e000"}

IdChar(id) == IF id = Null THEN "n" ELSE id

\* JSON.stringify of one response: { <tok> <id> <wide chars> }
StringifyResponse(response) ==
  <<"{", ResponseTok(response), IdChar(response.id)>>
    \o [i \in 1..response.wide |-> "U"] \o <<"}">>

RECURSIVE JoinResponses(_)
JoinResponses(rs) ==
  IF Len(rs) = 1 THEN StringifyResponse(rs[1])
  ELSE StringifyResponse(rs[1]) \o <<",">> \o JoinResponses(Tail(rs))

\* JSON.stringify of an array of responses
StringifyArray(rs) ==
  IF rs = <<>> THEN <<"[", "]">> ELSE <<"[">> \o JoinResponses(rs) \o <<"]">>

\* The Content-Length the response header announces for a body.
AnnouncedLength(body) == ByteLength(body)

\* writeResponse: the bytes written to stdout for a stringified body.
writeResponse(body, mode) ==
  IF mode = "jsonl"
  THEN Utf8Encode(body) \o <<"LF">>
  ELSE <<"H">> \o Numeral(AnnouncedLength(body)) \o <<"CR", "LF", "CR", "LF">>
         \o Utf8Encode(body)

\* --------------------------------------------------------- configuration
\* config.sessionRetentionMessages, the per-thread cap (SESSION_RETENTION_MESSAGES)
SessionRetentionMessages == 2

\* config.sessionRetentionDays, in clock ticks (SESSION_RETENTION_DAYS)
SessionRetentionTicks == 2

DefaultTopic == "default"

DefaultAgent == "default"

DefaultModel == "gpt-5.3-codex"

\* loadConfig: TRUE when it returns a configuration, FALSE when it throws
\* 'TELEGRAM_BOT_TOKEN is required'.
loadConfig(requireTelegramToken, token) == ~(requireTelegramToken /\ ~token)

\* An optional argument: absent, or present with a value.
None == <<>>

Some(v) == <<v>>

\* value ?? fallback
OrElse(opt, fallback) == IF opt = None THEN fallback ELSE opt[1]

\* ---------------------------------------------------------- SessionStore
\* The rows of a result of ORDER BY created_at DESC, newest first: every
\* order of the rows in which created_at does not ascend.  SQL leaves the
\* order of rows of equal created_at to the engine; SQLite reads them in rowid
\* order when it walks idx_session_lookup, and in the order its sorter
\* leaves them otherwise.
RECURSIVE NewestFirst(_)
NewestFirst(rows) ==
  IF rows = {} THEN {<<>>}
  ELSE UNION {{<<r>> \o rest : rest \in NewestFirst(rows \ {r})} :
                r \in {x \in rows : \A y \in rows : x.createdAt >= y.createdAt}}

ThreadRows(rows, chatId, topic) ==
  {r \in rows : r.chatId = chatId /\ r.topic = topic}

\* LIMIT n of a result: a negative n is no limit.
Limit(ordered, n) ==
  IF n < 0 \/ n >= Len(ordered) THEN ordered ELSE SubSeq(ordered, 1, n)

\* LIMIT -1 OFFSET n of a result.
Offset(ordered, n) ==
  IF n >= Len(ordered) THEN <<>> ELSE SubSeq(ordered, n + 1, Len(ordered))

\* [...rows].reverse()
Reverse(s) == [i \in 1..Len(s) |-> s[Len(s) + 1 - i]]

\* Mutant: the sweep of the thread leaves out the topic, it counts and
\* deletes over all rows of the chat.
pruneThreadOfChat(rows, chatId, topic, keep) ==
  {LET doomed == Offset(ordered, keep)
   IN  {r \in rows : \A i \in 1..Len(doomed) : doomed[i].id # r.id}
   : ordered \in NewestFirst({r \in rows : r.chatId = chatId})}

\* Mutant: the sweep of the thread keeps one row less than the cap.
pruneThreadOneLess(rows, chatId, topic, keep) ==
  {LET doomed == Offset(ordered, keep - 1)
   IN  {r \in rows : \A i \in 1..Len(doomed) : doomed[i].id # r.id}
   : ordered \in NewestFirst(ThreadRows(rows, chatId, topic))}

\* pruneThread: delete the rows of the thread after the first keep ones.
\* The tables the statement can leave.
pruneThread(rows, chatId, topic, keep) ==
  {LET doomed == Offset(ordered, keep)
   IN  {r \in rows : \A i \in 1..Len(doomed) : doomed[i].id # r.id}
   : ordered \in NewestFirst(ThreadRows(rows, chatId, topic))}

\* Mutant: the sweep also deletes the rows that are exactly as old as the
\* retention horizon.
pruneByTimeInclusive(rows, nowTime) ==
  {r \in rows : ~(r.createdAt <= nowTime - SessionRetentionTicks)}

\* pruneByTime: delete the rows older than the retention horizon.
pruneByTime(rows, nowTime) ==
  {r \in rows : ~(r.createdAt < nowTime - SessionRetentionTicks)}

\* Mutant: id INTEGER PRIMARY KEY without AUTOINCREMENT, the rowid of an
\* insert is one more than the largest rowid in the table.
rowidAfterLargest(rows, sequence) ==
  IF rows = {} THEN 1
  ELSE 1 + (CHOOSE n \in {r.id : r \in rows} : \A r \in rows : r.id <= n)

\* id INTEGER PRIMARY KEY AUTOINCREMENT: the rowid of an insert is the next
\* of sqlite_sequence, one more than the largest rowid the table ever held.
autoincrement(rows, sequence) == sequence

\* The row the INSERT of append adds.
InsertedRow(rowId, message, nowTime) ==
  [id |-> rowId, chatId |-> message.chatId, topic |-> message.topic,
   role |-> message.role, content |-> message.content, agent |-> message.agent,
   createdAt |-> nowTime]

\* SessionStore.append: the tables the insert and both sweeps can leave.
append(rows, rowId, message, nowTime) ==
  {pruneByTime(pruned, nowTime) :
     pruned \in pruneThread(rows \cup {InsertedRow(rowId, message, nowTime)},
                            message.chatId, message.topic, SessionRetentionMessages)}

\* SessionStore.getHistory: the results the query can return.  query.topic
\* and query.limit are optional.
getHistory(rows, query) ==
  LET limit == OrElse(query.limit, SessionRetentionMessages)
      topic == OrElse(query.topic, DefaultTopic)
  IN  {Reverse(Limit(ordered, limit)) :
         ordered \in NewestFirst(ThreadRows(rows, query.chatId, topic))}

\* ASCII case folding of LIKE.
Fold(c) == IF c = "A" THEN "a" ELSE c

\* text LIKE pattern: % matches any run of characters, _ any one character,
\* any other character itself or its other case.
RECURSIVE Like(_, _)
Like(text, pattern) ==
  IF pattern = <<>> THEN text = <<>>
  ELSE IF Head(pattern) = "%"
       THEN Like(text, Tail(pattern)) \/ (text # <<>> /\ Like(Tail(text), pattern))
       ELSE /\ text # <<>>
            /\ Head(pattern) = "_" \/ Fold(Head(pattern)) = Fold(Head(text))
            /\ Like(Tail(text), Tail(pattern))

\* Mutant: search without the chat_id condition.
searchCandidatesOfAnyChat(rows, chatId, keyword) ==
  {r \in rows : Like(r.content, <<"%">> \o keyword \o <<"%">>)}

\* The WHERE clause of search.
searchCandidates(rows, chatId, keyword) ==
  {r \in rows : r.chatId = chatId /\ Like(r.content, <<"%">> \o keyword \o <<"%">>)}

\* SessionStore.search: the results the query can return.  query.keyword is
\* a string, query.limit is optional.
search(rows, query) ==
  IF query.keyword = <<>> THEN {<<>>}
  ELSE {Limit(ordered, OrElse(query.limit, SessionRetentionMessages)) :
          ordered \in NewestFirst(searchCandidates(rows, query.chatId, query.keyword))}

\* summarize: the lines of the summary, one per message of the last six, each
\* the role and the content of the message; the one line 'No previous
\* context.' when there is no message.
summarize(history) ==
  IF history = <<>> THEN <<[role |-> "", content |-> <<"No previous context.">>]>>
  ELSE LET from == IF Len(history) > 6 THEN Len(history) - 5 ELSE 1
       IN  [i \in 1..(Len(history) - from + 1) |->
              [role |-> history[from + i - 1].role, content |-> history[from + i - 1].content]]

\* SessionStore.continueContext: the results it can return.
continueContext(rows, chatId, topic, limit) ==
  {[chatId |-> chatId, topic |-> topic,
    agent |-> IF Len(history) > 0 THEN history[Len(history)].agent ELSE DefaultAgent,
    messages |-> history, summary |-> summarize(history)] :
     history \in getHistory(rows, [chatId |-> chatId, topic |-> Some(topic),
                                   limit |-> Some(limit)])}

\* SessionStore.getCurrentProfile: the results it can return.
getCurrentProfile(rows, chatId, topic) ==
  {IF ordered = <<>> THEN [topic |-> topic, agent |-> DefaultAgent]
   ELSE [topic |-> ordered[1].topic, agent |-> ordered[1].agent] :
     ordered \in NewestFirst(ThreadRows(rows, chatId, topic))}

\* Mutant: MIN(created_at) as updatedAt.
ThreadGroupsOldest(rows, chatId) ==
  {[chatId |-> r.chatId, topic |-> r.topic,
    messageCount |-> Cardinality(ThreadRows(rows, r.chatId, r.topic)),
    updatedAt |-> (CHOOSE t \in {x.createdAt : x \in ThreadRows(rows, r.chatId, r.topic)} :
                     \A x \in ThreadRows(rows, r.chatId, r.topic) : t <= x.createdAt)] :
     r \in {x \in rows : chatId = None \/ chatId = Some(0) \/ Some(x.chatId) = chatId}}

\* The groups of GROUP BY chat_id, topic, of all chats or of one.
ThreadGroups(rows, chatId) ==
  {[chatId |-> r.chatId, topic |-> r.topic,
    messageCount |-> Cardinality(ThreadRows(rows, r.chatId, r.topic)),
    updatedAt |-> (CHOOSE t \in {x.createdAt : x \in ThreadRows(rows, r.chatId, r.topic)} :
                     \A x \in ThreadRows(rows, r.chatId, r.topic) : t >= x.createdAt)] :
     r \in {x \in rows : chatId = None \/ chatId = Some(0) \/ Some(x.chatId) = chatId}}

\* ORDER BY updatedAt DESC: every order in which updatedAt does not ascend.
RECURSIVE LatestFirst(_)
LatestFirst(groups) ==
  IF groups = {} THEN {<<>>}
  ELSE UNION {{<<g>> \o rest : rest \in LatestFirst(groups \ {g})} :
                g \in {x \in groups : \A y \in groups : x.updatedAt >= y.updatedAt}}

\* SessionStore.listThreads: the results it can return.
listThreads(rows, chatId) == LatestFirst(ThreadGroups(rows, chatId))

\* The key of the only row the bridge keeps in bridge_state.
OffsetKey == "telegram_offset"

\* SessionStore.getOffset: Number(value) of the row of the key, 0 without one.
getOffset(table) ==
  IF \E r \in table : r.key = OffsetKey
  THEN NumberOf((CHOOSE r \in table : r.key = OffsetKey).value)
  ELSE 0

\* Mutant: ON CONFLICT(key) DO NOTHING, the first value written stays.
setOffsetDoNothing(table, value, nowTime) ==
  IF \E r \in table : r.key = OffsetKey THEN table
  ELSE table \cup {[key |-> OffsetKey, value |-> Numeral(value), updatedAt |-> nowTime]}

\* SessionStore.setOffset: insert String(offset) under the key, or replace
\* the value and updated_at of the row the key has.
setOffset(table, value, nowTime) ==
  {r \in table : r.key # OffsetKey}
    \cup {[key |-> OffsetKey, value |-> Numeral(value), updatedAt |-> nowTime]}

\* ---------------------------------------------------------------- topic.ts
\* A text is a sequence of lexemes.  A lexeme is a run of white space, "\n"
\* when a line terminator is in the run and " " when none is, or a maximal
\* run of other characters.
Blank == {" ", "\n"}

\* The lexemes a command begins with.
CommandWords == {"/topic", "/TOPIC", "/agent", "/history", "/mode"}

\* Lexemes that [\w\-]{1,64} matches as a whole.
WordNames == {"work", "auto", "AUTO", "manual"}

\* Lexemes that [\w\-.]{1,64} matches as a whole.
DottedNames == WordNames \cup {"v1.2"}

\* Lexemes neither matches: 65 word characters, and a word with a character
\* outside both classes.
OtherWords == {"x65", "hi!"}

Lexemes == Blank \cup CommandWords \cup DottedNames \cup OtherWords

\* String.prototype.toLowerCase, as the i flag and the mode use it.
toLowerCase(lexeme) ==
  CASE lexeme = "/TOPIC" -> "/topic"
    [] lexeme = "AUTO" -> "auto"
    [] OTHER -> lexeme

\* String.prototype.trimStart
RECURSIVE trimStart(_)
trimStart(text) ==
  IF text # <<>> /\ Head(text) \in Blank THEN trimStart(Tail(text)) ELSE text

\* Mutant: only the white space at the start is removed.
trimStartOnly(text) == trimStart(text)

\* String.prototype.trim
RECURSIVE trim(_)
trim(text) ==
  IF text # <<>> /\ text[Len(text)] \in Blank
  THEN trim(SubSeq(text, 1, Len(text) - 1))
  ELSE trimStart(text)

\* ^<word>\s+(...) with the i flag: what follows the command word and the
\* white space after it, None when the text does not begin that way.
AfterCommand(raw, word) ==
  IF Len(raw) >= 2 /\ toLowerCase(raw[1]) = word /\ raw[2] \in Blank
  THEN Some(trimStart(Tail(raw)))
  ELSE None

\* Mutant: TOPIC_RE with the character class of AGENT_RE.
topicMatchDotted(raw) ==
  LET rest == AfterCommand(raw, "/topic")
  IN  IF rest # None /\ Len(rest[1]) = 1 /\ rest[1][1] \in DottedNames
      THEN Some(rest[1][1]) ELSE None

\* raw.match(TOPIC_RE): the name, None without a match.
topicMatch(raw) ==
  LET rest == AfterCommand(raw, "/topic")
  IN  IF rest # None /\ Len(rest[1]) = 1 /\ rest[1][1] \in WordNames
      THEN Some(rest[1][1]) ELSE None

\* raw.match(AGENT_RE): the profile, None without a match.
agentMatch(raw) ==
  LET rest == AfterCommand(raw, "/agent")
  IN  IF rest # None /\ Len(rest[1]) = 1 /\ rest[1][1] \in DottedNames
      THEN Some(rest[1][1]) ELSE None

\* raw.match(HISTORY_RE): (historyMatch[1] ?? '').trim(), None without a
\* match.  The dot matches no line terminator.
historyMatch(raw) ==
  LET rest == AfterCommand(raw, "/history")
  IN  IF Len(raw) = 1 /\ toLowerCase(raw[1]) = "/history" THEN Some(<<>>)
      ELSE IF /\ rest # None
              /\ rest[1] # <<>>
              /\ \A i \in 1..Len(rest[1]) : rest[1][i] # "\n"
           THEN Some(trim(rest[1]))
           ELSE None

\* raw.match(MODE_RE): the mode in lower case, None without a match.
modeMatch(raw) ==
  LET rest == AfterCommand(raw, "/mode")
  IN  IF rest # None /\ Len(rest[1]) = 1 /\ toLowerCase(rest[1][1]) \in {"manual", "auto"}
      THEN Some(toLowerCase(rest[1][1])) ELSE None

\* The fields of config that parseTelegramText reads.
Config == [defaultTopic |-> DefaultTopic, defaultAgent |-> DefaultAgent]

\* parseTelegramText(input, config, currentTopic, currentAgent): input,
\* currentTopic and currentAgent are optional.
parseTelegramText(input, config, currentTopic, currentAgent) ==
  LET raw   == trim(OrElse(input, <<>>))
      topic == OrElse(currentTopic, config.defaultTopic)
      agent == OrElse(currentAgent, config.defaultAgent)
  IN  IF topicMatch(raw) # None
      THEN [topic |-> topicMatch(raw)[1], agent |-> agent,
            text |-> <<"Topic changed to ", topicMatch(raw)[1]>>,
            command |-> Some("topic"), mode |-> None, keyword |-> None]
      ELSE IF agentMatch(raw) # None
      THEN [topic |-> topic, agent |-> agentMatch(raw)[1],
            text |-> <<"Agent changed to ", agentMatch(raw)[1]>>,
            command |-> Some("agent"), mode |-> None, keyword |-> None]
      ELSE IF historyMatch(raw) # None
      THEN [topic |-> topic, agent |-> agent, text |-> <<"History query">>,
            command |-> Some("history"), mode |-> None, keyword |-> historyMatch(raw)]
      ELSE IF modeMatch(raw) # None
      THEN [topic |-> topic, agent |-> agent,
            text |-> <<"Reply mode changed to ", modeMatch(raw)[1]>>,
            command |-> Some("mode"), mode |-> modeMatch(raw), keyword |-> None]
      ELSE [topic |-> topic, agent |-> agent, text |-> raw,
            command |-> None, mode |-> None, keyword |-> None]

\* ------------------------------------------------- what the client writes
\* The ids of the requests of the p-th payload of a run: distinct digits,
\* ascending in the order the requests are written.
FirstId(p) == Digits[2 * p]

SecondId(p) == Digits[2 * p + 1]

MultiByte == <<"e1", "e2", "e3">>

\* The text of one request object.
Obj(tok, id, wideBytes) ==
  <<"{", tok>> \o (IF id = NoId THEN <<>> ELSE <<id>>) \o wideBytes \o <<"}">>

Batch(a, b) == <<"[">> \o a \o <<",">> \o b \o <<"]">>

\* The JSON bodies a client can send as its p-th payload.
Bodies(p) ==
  [ init        |-> Obj("mI", FirstId(p), <<>>),
    initWide    |-> Obj("mI", FirstId(p), MultiByte),
    list        |-> Obj("mL", FirstId(p), <<>>),
    notif       |-> Obj("mN", NoId, <<>>),
    ping        |-> Obj("mU", FirstId(p), <<>>),
    pingWide    |-> Obj("mU", FirstId(p), MultiByte),
    appendCall  |-> Obj("cAppend", FirstId(p), <<>>),
    sendCall    |-> Obj("cSend", FirstId(p), <<>>),
    bogusCall   |-> Obj("cBogus", FirstId(p), <<>>),
    batch       |-> Batch(Obj("mI", FirstId(p), <<>>), Obj("mU", SecondId(p), <<>>)),
    batchSend   |-> Batch(Obj("cSend", FirstId(p), <<>>), Obj("cAppend", SecondId(p), <<>>)),
    batchNotifs |-> Batch(Obj("mN", NoId, <<>>), Obj("mN", NoId, <<>>)),
    batchNotifInit |-> Batch(Obj("mN", NoId, <<>>), Obj("mI", SecondId(p), <<>>)),
    batchBadVersion |-> Batch(Obj("cAppend", FirstId(p), <<>>), Obj("v1I", SecondId(p), <<>>)),
    batchNoMethod |-> Batch(Obj("mI", FirstId(p), <<>>), Obj("noM", SecondId(p), <<>>)),
    batchNull   |-> Batch(Obj("mL", FirstId(p), <<>>), <<"N">>),
    garbage     |-> <<"{", "mI", FirstId(p)>> ]

BodyNames == DOMAIN Bodies(1)

\* The bytes of a payload: fmt is the wire format the client uses.
\*   framedLF / framedCRLF  Content-Length header, blank line, body
\*   bare                   body and a newline
\*   noLength               a header block without Content-Length, then a
\*                          newline-terminated body
\*   noLengthWide           a header block whose only line is two multibyte
\*                          characters in front of 'Content-Length: n', then
\*                          a newline-terminated body
PayloadBytes(d, p) ==
  LET body == Bodies(p)[d.body]
  IN  CASE d.fmt = "framedLF" ->
             <<"H">> \o Numeral(Len(body)) \o <<"LF", "LF">> \o body
        [] d.fmt = "framedCRLF" ->
             <<"H">> \o Numeral(Len(body)) \o <<"CR", "LF", "CR", "LF">> \o body
        [] d.fmt = "bare" -> body \o <<"LF">>
        [] d.fmt = "noLength" -> <<"X", "LF", "LF">> \o body \o <<"LF">>
        [] d.fmt = "noLengthWide" ->
             MultiByte \o MultiByte \o <<"H">> \o Numeral(Len(body)) \o <<"LF", "LF">>
               \o body \o <<"LF">>

\* The payloads a run can start with, and the ones that can follow.
FirstPayloads ==
  [fmt : {"framedLF", "bare"}, body : BodyNames]
    \cup [fmt : {"framedCRLF"}, body : {"init", "initWide", "batch", "garbage", "sendCall"}]
    \cup [fmt : {"noLength", "noLengthWide"}, body : {"init"}]

FollowingPayloads ==
  [fmt : {"framedLF"}, body : {"init", "initWide", "batch", "sendCall"}]
    \cup [fmt : {"bare"}, body : {"ping", "notif"}]

RECURSIVE ScenariosOfLength(_)
ScenariosOfLength(n) ==
  IF n = 1 THEN {<<d>> : d \in FirstPayloads}
  ELSE {Append(sc, d) : sc \in ScenariosOfLength(n - 1), d \in FollowingPayloads}

\* A run in which payloads arrive while a handler is suspended: a Telegram
\* send, then a frame whose body is not JSON, then a valid request.
BehindSend ==
  {<<[fmt |-> "framedLF", body |-> "sendCall"], [fmt |-> "framedLF", body |-> "garbage"],
     [fmt |-> "framedLF", body |-> "init"]>>}

Scenarios == UNION {ScenariosOfLength(n) : n \in 1..MaxPayloads} \cup BehindSend

\* All the bytes of a run, in the order the client writes them.
StreamOf(sc) == Flatten([p \in 1..Len(sc) |-> PayloadBytes(sc[p], p)])

\* ------------------------------------------------------------------ state
VARIABLES
  scenario,        \* the payloads the client writes during this run
  stream,          \* the bytes of those payloads, in the order they are written
  pos,             \* how many bytes of the stream stdin has delivered
  telegramBotToken,\* config.telegramBotToken is non-empty
  inputBuffer,     \* runMcpServer: inputBuffer
  processing,      \* runMcpServer: processing
  loggedNoSeparatorSample, \* runMcpServer: loggedNoSeparatorSample
  drains,          \* the activations of drainInputBuffer that have not returned
  stdout,          \* the writes made to process.stdout, oldest first
  debugLog,        \* the request, response and error lines of the debug log
  messages,        \* table session_messages
  nextId,          \* the next AUTOINCREMENT rowid of session_messages
  now,             \* Date.now()
  telegramSent,    \* messages the Telegram API accepted
  bridgeState,     \* table bridge_state: its rows
  selectedModel,   \* the model ids remembered per thread
  lastCall,        \* history: the latest call of a tool or of the store
  arrivedDuringDrain, \* history: a chunk arrived while processing was true
  telegram,        \* the Telegram Bot API: the updates it holds for the bot
  daemon,          \* telegram.ts main: where it is, offset, the updates it got;
                   \* seen is history, the largest update_id it was given
  handled,         \* history: the updates handleMessage was called for
  copilot          \* a CopilotClient: its fields, where generateReply is, the
                   \* usage log; calls, events and waits are history

vars == <<scenario, stream, pos, telegramBotToken, inputBuffer, processing,
          loggedNoSeparatorSample, drains, stdout, debugLog, messages, nextId,
          now, telegramSent, bridgeState, selectedModel, lastCall, arrivedDuringDrain,
          telegram, daemon, handled, copilot>>

clientVars == <<scenario, stream, telegramBotToken>>

bridgeVars == <<bridgeState, selectedModel, lastCall>>

daemonVars == <<telegram, daemon, handled, copilot>>

storeVars == <<messages, nextId, now, telegramSent, bridgeVars>>

historyVars == <<arrivedDuringDrain>>

\* An activation of drainInputBuffer.
\*   pc        "loop"      at the head of the while loop
\*             "dispatch"  inside handleIncomingPayload, before a request
\*             "await"     suspended in a collaborator's network call
\*   mode, isArray, requests, next, responses: the locals of
\*   handleIncomingPayload (next is the position of the for loop)
LoopFrame ==
  [pc |-> "loop", mode |-> "", isArray |-> FALSE, requests |-> <<>>, next |-> 1,
   responses |-> <<>>]

DispatchFrame(payload, mode) ==
  [pc |-> "dispatch", mode |-> mode, isArray |-> payload.isArray,
   requests |-> payload.items, next |-> 1, responses |-> <<>>]

LogLine(ev, id, method, transport) ==
  [ev |-> ev, id |-> id, method |-> method, transport |-> transport]

RemoveAt(seq, i) == SubSeq(seq, 1, i - 1) \o SubSeq(seq, i + 1, Len(seq))

\* No tool and no store method has been called yet.
NoCall ==
  [op |-> "", query |-> <<>>, result |-> <<>>, value |-> <<>>, appended |-> None,
   refused |-> FALSE, written |-> None, opened |-> 1]

\* The minimum buffer length at which a no-separator sample is logged.
NoSeparatorSampleBytes == 64

\* No CopilotClient was constructed.
NoCopilot ==
  [pc |-> "", apiKey |-> FALSE, maxRetries |-> [n |-> 0, d |-> 1],
   retryBaseMs |-> [n |-> 0, d |-> 1], attempt |-> 0, calls |-> 0, events |-> <<>>,
   waits |-> <<>>, usageLog |-> <<>>]

\* No update was ever sent to the bot and no daemon runs.
DaemonIdle ==
  /\ telegram = [updates |-> <<>>, received |-> 0, failures |-> 0]
  /\ daemon = [pc |-> "", offset |-> 0, batch |-> <<>>, next |-> 1, restarts |-> 0,
               seen |-> 0]
  /\ handled = <<>>
  /\ copilot = NoCopilot

Init ==
  /\ DaemonIdle
  /\ scenario \in Scenarios
  /\ stream = StreamOf(scenario)
  /\ pos = 0
  /\ telegramBotToken \in BOOLEAN
  /\ inputBuffer = <<>>
  /\ processing = FALSE
  /\ loggedNoSeparatorSample = FALSE
  /\ drains = <<>>
  /\ stdout = <<>>
  /\ debugLog = <<>>
  /\ messages = {}
  /\ nextId = 1
  /\ now = 0
  /\ telegramSent = 0
  /\ bridgeState = {}
  /\ selectedModel = {}
  /\ lastCall = NoCall
  /\ arrivedDuringDrain = FALSE

\* ------------------------------------------------------------ stdin data
\* Mutant: drainInputBuffer without its re-entrancy guard.
drainStartsAlways(inProgress) == TRUE

\* The guard of drainInputBuffer: an activation goes on only when no other
\* one is in progress.
drainStarts(inProgress) == ~inProgress

\* process.stdin.on('data'): the chunk is appended and drainInputBuffer is
\* called.  Node delivers a chunk only when no continuation is ready to run,
\* that is when every activation is suspended in a network call.
StdinData(k) ==
  /\ pos + k <= Len(stream)
  /\ \A i \in 1..Len(drains) : drains[i].pc = "await"
  /\ pos' = pos + k
  /\ inputBuffer' = inputBuffer \o SubSeq(stream, pos + 1, pos + k)
  /\ IF drainStarts(processing)
     THEN /\ processing' = TRUE
          /\ drains' = Append(drains, LoopFrame)
     ELSE UNCHANGED <<processing, drains>>
  /\ arrivedDuringDrain' = (arrivedDuringDrain \/ processing)
  /\ UNCHANGED <<clientVars, daemonVars, loggedNoSeparatorSample, stdout, debugLog, storeVars>>

\* ------------------------------------------------- drainInputBuffer loop
AtLoop(i) == i \in 1..Len(drains) /\ drains[i].pc = "loop"

\* Mutant: the activation returns without the finally clause.
DrainReturnsFlagKept(i) ==
  /\ processing' = processing
  /\ drains' = RemoveAt(drains, i)

\* finally { processing = false } and the activation returns.
DrainReturns(i) ==
  /\ processing' = FALSE
  /\ drains' = RemoveAt(drains, i)

BodyStart(separator) == separator.index + separator.length

\* No separator and no bare request: break.
DrainNoPayload(i) ==
  /\ AtLoop(i)
  /\ ~findHeaderSeparator(inputBuffer).found
  /\ ~tryReadBareJsonRequest(inputBuffer).found
  /\ IF ~loggedNoSeparatorSample /\ Len(inputBuffer) >= NoSeparatorSampleBytes
     THEN /\ loggedNoSeparatorSample' = TRUE
          /\ debugLog' = Append(debugLog, LogLine("no_separator_sample", Null, "", ""))
     ELSE UNCHANGED <<loggedNoSeparatorSample, debugLog>>
  /\ DrainReturns(i)
  /\ UNCHANGED <<clientVars, daemonVars, historyVars, pos, inputBuffer, stdout, storeVars>>

\* No separator, a bare request: consume it and call handleIncomingPayload.
DrainBare(i) ==
  LET bare == tryReadBareJsonRequest(inputBuffer)
  IN  /\ AtLoop(i)
      /\ ~findHeaderSeparator(inputBuffer).found
      /\ bare.found
      /\ inputBuffer' = SliceFrom(inputBuffer, bare.consumedBytes)
      /\ drains' = [drains EXCEPT ![i] = DispatchFrame(bare.payload, "jsonl")]
      /\ UNCHANGED <<clientVars, daemonVars, historyVars, pos, processing, loggedNoSeparatorSample, stdout,
                     debugLog, storeVars>>

HeaderOf(buffer, separator) == Utf8Decode(Slice(buffer, 0, separator.index))

\* A header block without a Content-Length line: drop it and continue.
DrainMissingContentLength(i) ==
  LET separator == findHeaderSeparator(inputBuffer)
  IN  /\ AtLoop(i)
      /\ separator.found
      /\ ~contentLengthMatch(HeaderOf(inputBuffer, separator)).found
      /\ loggedNoSeparatorSample' = FALSE
      /\ debugLog' = Append(debugLog, LogLine("missing_content_length_header", Null, "", ""))
      /\ inputBuffer' = SliceFrom(inputBuffer, BodyStart(separator))
      /\ UNCHANGED <<clientVars, daemonVars, historyVars, pos, processing, drains, stdout, storeVars>>

BodyEnd(buffer, separator) ==
  BodyStart(separator) + contentLengthMatch(HeaderOf(buffer, separator)).length

HasLength(buffer, separator) ==
  separator.found /\ contentLengthMatch(HeaderOf(buffer, separator)).found

\* The body has not arrived completely: break.
DrainIncompleteBody(i) ==
  LET separator == findHeaderSeparator(inputBuffer)
  IN  /\ AtLoop(i)
      /\ HasLength(inputBuffer, separator)
      /\ Len(inputBuffer) < BodyEnd(inputBuffer, separator)
      /\ loggedNoSeparatorSample' = FALSE
      /\ DrainReturns(i)
      /\ UNCHANGED <<clientVars, daemonVars, historyVars, pos, inputBuffer, stdout, debugLog, storeVars>>

FramedBody(buffer, separator) ==
  Utf8Decode(Slice(buffer, BodyStart(separator), BodyEnd(buffer, separator)))

\* JSON.parse throws on the body: the frame is consumed, the catch clause
\* logs drain_error and the activation returns.
DrainBodyParseError(i) ==
  LET separator == findHeaderSeparator(inputBuffer)
  IN  /\ AtLoop(i)
      /\ HasLength(inputBuffer, separator)
      /\ Len(inputBuffer) >= BodyEnd(inputBuffer, separator)
      /\ ~JsonParse(FramedBody(inputBuffer, separator)).ok
      /\ loggedNoSeparatorSample' = FALSE
      /\ inputBuffer' = SliceFrom(inputBuffer, BodyEnd(inputBuffer, separator))
      /\ debugLog' = Append(debugLog, LogLine("drain_error", Null, "SyntaxError", ""))
      /\ DrainReturns(i)
      /\ UNCHANGED <<clientVars, daemonVars, historyVars, pos, stdout, storeVars>>

\* A complete frame whose body parses: consume it and call
\* handleIncomingPayload.
DrainFramed(i) ==
  LET separator == findHeaderSeparator(inputBuffer)
  IN  /\ AtLoop(i)
      /\ HasLength(inputBuffer, separator)
      /\ Len(inputBuffer) >= BodyEnd(inputBuffer, separator)
      /\ JsonParse(FramedBody(inputBuffer, separator)).ok
      /\ loggedNoSeparatorSample' = FALSE
      /\ inputBuffer' = SliceFrom(inputBuffer, BodyEnd(inputBuffer, separator))
      /\ drains' = [drains EXCEPT ![i] =
                      DispatchFrame(JsonParse(FramedBody(inputBuffer, separator)), "framed")]
      /\ UNCHANGED <<clientVars, daemonVars, historyVars, pos, processing, stdout, debugLog, storeVars>>

\* --------------------------------------------------- handleIncomingPayload
AtRequest(i) ==
  /\ i \in 1..Len(drains)
  /\ drains[i].pc = "dispatch"
  /\ drains[i].next <= Len(drains[i].requests)

CurrentRequest(i) == drains[i].requests[drains[i].next]

RequestLine(request, mode) ==
  LogLine("request", IdOrNull(request), request.method, mode)

ResponseLine(response, mode) ==
  LogLine(IF response.kind = "error" THEN "response_error" ELSE "response",
          response.id, "", mode)

\* Mutant: a request that has no response is answered with an empty result.
SkippedWithReply(frame) ==
  [frame EXCEPT !.pc = "dispatch", !.next = @ + 1,
                !.responses = Append(@, [id |-> Null, kind |-> "result", code |-> 0,
                                          what |-> "initialized", wide |-> 0])]

\* The for loop of handleIncomingPayload after handleRequest returned null.
Skipped(frame) == [frame EXCEPT !.pc = "dispatch", !.next = @ + 1]

\* Mutant: the response is put in front of the collected ones.
AnsweredInFront(frame, response) ==
  [frame EXCEPT !.pc = "dispatch", !.next = @ + 1,
                !.responses = <<response>> \o @]

\* The for loop of handleIncomingPayload after handleRequest returned a
\* response: responses.push(response).
Answered(frame, response) ==
  [frame EXCEPT !.pc = "dispatch", !.next = @ + 1,
                !.responses = Append(@, response)]

\* The request line and the response line of the debug log.
Logged(request, response, mode) ==
  debugLog \o <<RequestLine(request, mode), ResponseLine(response, mode)>>

\* The element is null: reading request.method throws a TypeError, which
\* leaves handleIncomingPayload and is caught by drainInputBuffer; the
\* responses collected for the payload so far are dropped.
RequestTypeError(i) ==
  /\ AtRequest(i)
  /\ CurrentRequest(i).kind = "null"
  /\ debugLog' = Append(debugLog, LogLine("drain_error", Null, "TypeError", ""))
  /\ DrainReturns(i)
  /\ UNCHANGED <<clientVars, daemonVars, historyVars, pos, inputBuffer, loggedNoSeparatorSample, stdout, storeVars>>

\* ----------------------------------------------------------- handleRequest
KnownMethods == {"notifications/initialized", "initialize", "tools/list", "tools/call"}

CodeMethodNotFound == -32601

CodeToolFailure == -32000

\* Mutant: an unknown method is reported with the code of a tool failure.
handleRequestWrongCode(request) ==
  IF request.method = "initialize" THEN ResultResponse(request, "initialize")
  ELSE IF request.method = "tools/list" THEN ResultResponse(request, "tools")
  ELSE ErrorResponse(request, CodeToolFailure, "Method not found")

\* The response of handleRequest to a request it answers without a tool.
handleRequest(request) ==
  IF request.method = "initialize" THEN ResultResponse(request, "initialize")
  ELSE IF request.method = "tools/list" THEN ResultResponse(request, "tools")
  ELSE ErrorResponse(request, CodeMethodNotFound, "Method not found")

\* Mutant: the catch clause reports the failure as a missing method.
handlerFailureAsMethodNotFound(request, message) ==
  ErrorResponse(request, CodeMethodNotFound, message)

\* The catch clause of handleRequest.
handlerFailure(request, message) == ErrorResponse(request, CodeToolFailure, message)

HandleNotification(i) ==
  /\ AtRequest(i)
  /\ CurrentRequest(i).kind # "null"
  /\ CurrentRequest(i).method = "notifications/initialized"
  /\ debugLog' = Append(debugLog, RequestLine(CurrentRequest(i), drains[i].mode))
  /\ drains' = [drains EXCEPT ![i] = Skipped(@)]
  /\ UNCHANGED <<clientVars, daemonVars, historyVars, pos, inputBuffer, processing, loggedNoSeparatorSample,
                 stdout, storeVars>>

HandleInitialize(i) ==
  /\ AtRequest(i)
  /\ CurrentRequest(i).kind # "null"
  /\ CurrentRequest(i).method = "initialize"
  /\ debugLog' = Logged(CurrentRequest(i), handleRequest(CurrentRequest(i)), drains[i].mode)
  /\ drains' = [drains EXCEPT ![i] = Answered(@, handleRequest(CurrentRequest(i)))]
  /\ UNCHANGED <<clientVars, daemonVars, historyVars, pos, inputBuffer, processing, loggedNoSeparatorSample,
                 stdout, storeVars>>

HandleToolsList(i) ==
  /\ AtRequest(i)
  /\ CurrentRequest(i).kind # "null"
  /\ CurrentRequest(i).method = "tools/list"
  /\ debugLog' = Logged(CurrentRequest(i), handleRequest(CurrentRequest(i)), drains[i].mode)
  /\ drains' = [drains EXCEPT ![i] = Answered(@, handleRequest(CurrentRequest(i)))]
  /\ UNCHANGED <<clientVars, daemonVars, historyVars, pos, inputBuffer, processing, loggedNoSeparatorSample,
                 stdout, storeVars>>

HandleUnknownMethod(i) ==
  /\ AtRequest(i)
  /\ CurrentRequest(i).kind # "null"
  /\ CurrentRequest(i).method \notin KnownMethods
  /\ debugLog' = Logged(CurrentRequest(i), handleRequest(CurrentRequest(i)), drains[i].mode)
  /\ drains' = [drains EXCEPT ![i] = Answered(@, handleRequest(CurrentRequest(i)))]
  /\ UNCHANGED <<clientVars, daemonVars, historyVars, pos, inputBuffer, processing, loggedNoSeparatorSample,
                 stdout, storeVars>>

\* ---------------------------------------------------------------- callTool
AtToolCall(i, tools) ==
  /\ AtRequest(i)
  /\ CurrentRequest(i).kind # "null"
  /\ CurrentRequest(i).method = "tools/call"
  /\ CurrentRequest(i).tool \in tools

AppendTools == {"session_append", "session.append"}

SendTools == {"telegram_send_message", "telegram.send_message"}

ToolNames == AppendTools \cup SendTools

\* The message session_append stores for the arguments of the model's
\* request: chatId 1, no topic, no role, no agent, and a content that holds
\* the request's multibyte characters.
AppendArguments(request) ==
  [chatId |-> 1, topic |-> DefaultTopic, role |-> "user",
   content |-> [k \in 1..request.wide |-> "U"], agent |-> DefaultAgent]

\* case 'session_append'
CallSessionAppend(i) ==
  /\ AtToolCall(i, AppendTools)
  /\ messages' \in append(messages, nextId, AppendArguments(CurrentRequest(i)), now)
  /\ nextId' = nextId + 1
  /\ debugLog' = Logged(CurrentRequest(i), ResultResponse(CurrentRequest(i), "message"),
                        drains[i].mode)
  /\ drains' = [drains EXCEPT ![i] = Answered(@, ResultResponse(CurrentRequest(i), "message"))]
  /\ UNCHANGED <<clientVars, daemonVars, historyVars, pos, inputBuffer, processing, loggedNoSeparatorSample,
                 stdout, now, telegramSent, bridgeVars>>

\* default: throw new Error(`Unknown tool: ${name}`)
CallUnknownTool(i) ==
  /\ AtToolCall(i, {t \in {TokInfo[k].tool : k \in FieldToks} : t \notin ToolNames})
  /\ debugLog' = Logged(CurrentRequest(i), handlerFailure(CurrentRequest(i), "Unknown tool"),
                        drains[i].mode)
  /\ drains' = [drains EXCEPT ![i] =
                  Answered(@, handlerFailure(CurrentRequest(i), "Unknown tool"))]
  /\ UNCHANGED <<clientVars, daemonVars, historyVars, pos, inputBuffer, processing, loggedNoSeparatorSample,
                 stdout, storeVars>>

\* case 'telegram_send_message' without a token:
\* assertTelegramTokenConfigured throws.
CallTelegramWithoutToken(i) ==
  /\ AtToolCall(i, SendTools)
  /\ ~telegramBotToken
  /\ debugLog' = Logged(CurrentRequest(i),
                        handlerFailure(CurrentRequest(i), "TELEGRAM_BOT_TOKEN is required"),
                        drains[i].mode)
  /\ drains' = [drains EXCEPT ![i] =
                  Answered(@, handlerFailure(CurrentRequest(i), "TELEGRAM_BOT_TOKEN is required"))]
  /\ UNCHANGED <<clientVars, daemonVars, historyVars, pos, inputBuffer, processing, loggedNoSeparatorSample,
                 stdout, storeVars>>

\* case 'telegram_send_message' with a token: await telegram.sendMessage(...)
\* suspends the activation in fetch.
CallTelegramSendMessage(i) ==
  /\ AtToolCall(i, SendTools)
  /\ telegramBotToken
  /\ debugLog' = Append(debugLog, RequestLine(CurrentRequest(i), drains[i].mode))
  /\ drains' = [drains EXCEPT ![i].pc = "await"]
  /\ UNCHANGED <<clientVars, daemonVars, historyVars, pos, inputBuffer, processing, loggedNoSeparatorSample,
                 stdout, storeVars>>

\* TelegramClient.sendMessage settles: it returns the message id, or throws
\* (HTTP status not ok, ok=false, schema mismatch, network error).
TelegramSettles(i, delivered) ==
  LET request  == CurrentRequest(i)
      response == IF delivered THEN ResultResponse(request, "messageId")
                  ELSE handlerFailure(request, "Telegram sendMessage failed")
  IN  /\ i \in 1..Len(drains)
      /\ drains[i].pc = "await"
      /\ telegramSent' = IF delivered THEN telegramSent + 1 ELSE telegramSent
      /\ debugLog' = Append(debugLog, ResponseLine(response, drains[i].mode))
      /\ drains' = [drains EXCEPT ![i] = Answered(@, response)]
      /\ UNCHANGED <<clientVars, daemonVars, historyVars, pos, inputBuffer, processing, loggedNoSeparatorSample,
                     stdout, messages, nextId, now, bridgeVars>>

\* ------------------------------------------- the end of handleIncomingPayload
\* Mutant: the responses of an array payload are written as an array also
\* when there is one only.
payloadOutputArrayOfOne(isArray, responses, mode) ==
  IF responses = <<>> THEN <<>>
  ELSE IF isArray
       THEN <<writeResponse(StringifyArray(responses), mode)>>
       ELSE <<writeResponse(StringifyResponse(responses[1]), mode)>>

\* What handleIncomingPayload writes for the responses it collected: nothing,
\* the array, or the first response.
payloadOutput(isArray, responses, mode) ==
  IF responses = <<>> THEN <<>>
  ELSE IF isArray /\ Len(responses) > 1
       THEN <<writeResponse(StringifyArray(responses), mode)>>
       ELSE <<writeResponse(StringifyResponse(responses[1]), mode)>>

PayloadDone(i) ==
  /\ i \in 1..Len(drains)
  /\ drains[i].pc = "dispatch"
  /\ drains[i].next > Len(drains[i].requests)
  /\ stdout' = stdout \o payloadOutput(drains[i].isArray, drains[i].responses, drains[i].mode)
  /\ drains' = [drains EXCEPT ![i] = LoopFrame]
  /\ UNCHANGED <<clientVars, daemonVars, historyVars, pos, inputBuffer, processing, loggedNoSeparatorSample,
                 debugLog, storeVars>>

\* --------------------------------------------------------------------- Next
Activations == 1..2

Next ==
  \/ \E k \in 1..(Len(stream) - pos) : StdinData(k)
  \/ \E i \in Activations : DrainNoPayload(i)
  \/ \E i \in Activations : DrainBare(i)
  \/ \E i \in Activations : DrainMissingContentLength(i)
  \/ \E i \in Activations : DrainIncompleteBody(i)
  \/ \E i \in Activations : DrainBodyParseError(i)
  \/ \E i \in Activations : DrainFramed(i)
  \/ \E i \in Activations : RequestTypeError(i)
  \/ \E i \in Activations : HandleNotification(i)
  \/ \E i \in Activations : HandleInitialize(i)
  \/ \E i \in Activations : HandleToolsList(i)
  \/ \E i \in Activations : HandleUnknownMethod(i)
  \/ \E i \in Activations : CallSessionAppend(i)
  \/ \E i \in Activations : CallUnknownTool(i)
  \/ \E i \in Activations : CallTelegramWithoutToken(i)
  \/ \E i \in Activations : CallTelegramSendMessage(i)
  \/ \E i \in Activations : \E delivered \in BOOLEAN : TelegramSettles(i, delivered)
  \/ \E i \in Activations : PayloadDone(i)

Spec == Init /\ [][Next]_vars

\* ------------------------------------------------- what the run should show
\* The JSON value the client wrote as its p-th payload.
SentPayload(p) == JsonParse(Utf8Decode(Bodies(p)[scenario[p].body]))

\* The p-th payload is a valid frame or a valid bare line, and every element
\* of it is a request object.
WellFormed(p) ==
  /\ scenario[p].fmt \in {"framedLF", "framedCRLF", "bare"}
  /\ SentPayload(p).ok
  /\ isRpcPayload(SentPayload(p))

SentFramed(p) == scenario[p].fmt \in {"framedLF", "framedCRLF"}

\* The payload a request id was written in.
PayloadOfId(id) == (DigitVal(id) + 1) \div 2

SentIds(p) ==
  {SentPayload(p).items[j].id : j \in 1..Len(SentPayload(p).items)} \ {NoId}

\* The ids of the requests that call for a response: the requests of the
\* well-formed payloads other than notifications/initialized.
AwaitedIds ==
  UNION {{SentPayload(p).items[j].id :
            j \in {k \in 1..Len(SentPayload(p).items) :
                     SentPayload(p).items[k].method # "notifications/initialized"}}
         : p \in {q \in 1..Len(scenario) : WellFormed(q)}}

\* The ids of the responses in one write, in the order they stand in it.
RECURSIVE ResponseIds(_)
ResponseIds(w) ==
  IF Len(w) < 2 THEN <<>>
  ELSE IF w[1] \in ResponseToks THEN <<w[2]>> \o ResponseIds(Tail(Tail(w)))
       ELSE ResponseIds(Tail(w))

\* The ids of all responses written so far, in the order of writing.
WrittenIds == Flatten([k \in 1..Len(stdout) |-> ResponseIds(stdout[k])])

\* The ids of the requests passed to handleRequest so far, in order.
DispatchedIds ==
  LET lines == SelectSeq(debugLog, LAMBDA l : l.ev = "request")
  IN  [k \in 1..Len(lines) |-> lines[k].id]

Count(seq, x) == Cardinality({j \in 1..Len(seq) : seq[j] = x})

\* The ids of a sequence, leaving out null, ascend strictly.  The client
\* numbers its requests in the order it writes them.
Ascending(ids) ==
  \A a, b \in {j \in 1..Len(ids) : ids[j] \in DigitSet} :
    a < b => DigitVal(ids[a]) < DigitVal(ids[b])

\* All input has arrived and no activation of drainInputBuffer is left: the
\* server does nothing more until stdin delivers another chunk.
Quiescent == pos = Len(stream) /\ drains = <<>>

\* ------------------------------------------------------------------ C1
\* C1: every request that is not a notification gets exactly one response
\* with its id.  Stated on the final state of a run: no id is ever answered
\* twice, and once all input has arrived and the server has gone idle every
\* request that calls for a response has been answered.
C1_EveryRequestAnsweredOnce ==
  /\ \A id \in DigitSet : Count(WrittenIds, id) <= 1
  /\ Quiescent => \A id \in AwaitedIds : Count(WrittenIds, id) = 1

\* ------------------------------------------------------------------ C2
\* The first payload of the run is one valid framed request.
FirstIsFramedRequest ==
  SentFramed(1) /\ WellFormed(1) /\ ~SentPayload(1).isArray

FirstLength == Len(PayloadBytes(scenario[1], 1))

\* C2: a valid framed request, split into chunks in any way, is dispatched
\* exactly once: not while a byte of it is missing, and once when its last
\* byte has arrived and the drain that byte started has returned.
C2_FramedRequestDispatchedOnce ==
  FirstIsFramedRequest =>
    /\ pos < FirstLength => DispatchedIds = <<>>
    /\ (pos >= FirstLength /\ drains = <<>>) =>
         /\ Len(DispatchedIds) >= 1
         /\ DispatchedIds[1] = IdOrNull(SentPayload(1).items[1])
    /\ (pos = FirstLength /\ drains = <<>>) => Len(DispatchedIds) = 1
    /\ \A id \in SentIds(1) : Count(DispatchedIds, id) <= 1

\* A CRLF-framed request of which the header and a part of the body have
\* arrived, after the drain started by that chunk has returned.
C2_Witness ==
  /\ FirstIsFramedRequest
  /\ scenario[1].fmt = "framedCRLF"
  /\ pos > 6 /\ pos < FirstLength
  /\ drains = <<>> /\ ~processing
  /\ inputBuffer = SubSeq(stream, 1, pos)

\* ------------------------------------------------------------------ C3
\* The activations that are inside handleIncomingPayload.
Handling == {i \in 1..Len(drains) : drains[i].pc \in {"dispatch", "await"}}

\* The buffer starts with a complete payload whose elements are all requests.
PayloadReady(buffer) ==
  LET separator == findHeaderSeparator(buffer)
  IN  IF separator.found
      THEN /\ HasLength(buffer, separator)
           /\ Len(buffer) >= BodyEnd(buffer, separator)
           /\ JsonParse(FramedBody(buffer, separator)).ok
           /\ isRpcPayload(JsonParse(FramedBody(buffer, separator)))
      ELSE tryReadBareJsonRequest(buffer).found

\* C3: at most one request handler is executing at any time, also when
\* chunks arrive while a handler is suspended in a network call, and the
\* requests are started in the order they arrived.
C3_OneHandlerAtATime ==
  /\ Cardinality(Handling) <= 1
  /\ Len(drains) <= 1
  /\ Ascending(DispatchedIds)

\* A handler is suspended in the Telegram call and a chunk that arrived
\* meanwhile has put a complete request into the buffer.
C3_Witness ==
  /\ arrivedDuringDrain
  /\ Len(drains) = 1 /\ drains[1].pc = "await"
  /\ PayloadReady(inputBuffer)

\* ------------------------------------------------------------------ C4
\* C4: responses are written in the order in which their requests were
\* received, across payloads and within a batch.
C4_ResponsesInRequestOrder == Ascending(WrittenIds)

\* Three responses have been written: a batch array and one more payload.
C4_Witness ==
  /\ Len(WrittenIds) >= 3
  /\ \E k \in 1..Len(stdout) : Len(ResponseIds(stdout[k])) = 2

\* ------------------------------------------------------------------ C5
\* The p-th payload is JSON, framed or bare, with an element that is not a
\* request object with jsonrpc "2.0" and a string method.
Malformed(p) ==
  /\ scenario[p].fmt \in {"framedLF", "framedCRLF", "bare"}
  /\ SentPayload(p).ok
  /\ ~isRpcPayload(SentPayload(p))

\* C5: a payload with a malformed element is rejected as a whole, framed or
\* bare: none of its requests is dispatched and none is answered.
C5_MalformedPayloadRejected ==
  \A p \in 1..Len(scenario) :
    Malformed(p) =>
      \A id \in SentIds(p) : Count(DispatchedIds, id) = 0 /\ Count(WrittenIds, id) = 0

\* ------------------------------------------------------------------ C6
\* A framed payload was discarded because JSON.parse threw on its body.
BodyParseFailed ==
  \E k \in 1..Len(debugLog) :
    debugLog[k].ev = "drain_error" /\ debugLog[k].method = "SyntaxError"

\* C6: after a framed payload with an unparsable body was discarded the
\* stream continues: when the drain has returned, no complete valid payload
\* is left waiting in the buffer behind it.
C6_StreamContinuesAfterParseError ==
  (BodyParseFailed /\ drains = <<>>) => ~PayloadReady(inputBuffer)

\* ------------------------------------------------------------------ C7
\* Activation i is at a tools/call request, or suspended in its tool.
InToolCall(i) ==
  /\ i \in 1..Len(drains)
  /\ drains[i].pc \in {"dispatch", "await"}
  /\ drains[i].next <= Len(drains[i].requests)
  /\ CurrentRequest(i).kind # "null"
  /\ CurrentRequest(i).method = "tools/call"

\* This step ends the tool call of activation i with a failure, whose message
\* is msg: the tool name is unknown, a Telegram tool is called without a
\* token, or the Telegram call did not deliver.
ToolFailsWith(i, msg) ==
  /\ InToolCall(i)
  /\ debugLog' # debugLog
  /\ \/ /\ drains[i].pc = "dispatch"
        /\ CurrentRequest(i).tool \notin ToolNames
        /\ msg = "Unknown tool"
     \/ /\ drains[i].pc = "dispatch"
        /\ CurrentRequest(i).tool \in SendTools
        /\ ~telegramBotToken
        /\ msg = "TELEGRAM_BOT_TOKEN is required"
     \/ /\ drains[i].pc = "await"
        /\ telegramSent' = telegramSent
        /\ msg = "Telegram sendMessage failed"

FailureMessages ==
  {"Unknown tool", "TELEGRAM_BOT_TOKEN is required", "Telegram sendMessage failed"}

\* C7: a failure inside a tool handler becomes the response of the request,
\* an error with code -32000, the failure's message and the request's id;
\* the drain goes on with the requests that follow.
C7_ToolFailureBecomesErrorResponse ==
  [][\A i \in Activations : \A msg \in FailureMessages :
       ToolFailsWith(i, msg) =>
         /\ Len(drains') = Len(drains)
         /\ processing'
         /\ drains'[i].pc = "dispatch"
         /\ drains'[i].requests = drains[i].requests
         /\ drains'[i].next = drains[i].next + 1
         /\ Len(drains'[i].responses) = Len(drains[i].responses) + 1
         /\ SubSeq(drains'[i].responses, 1, Len(drains[i].responses)) = drains[i].responses
         /\ LET r == drains'[i].responses[Len(drains'[i].responses)]
            IN  /\ r.kind = "error"
                /\ r.code = -32000
                /\ r.what = msg
                /\ r.id = IdOrNull(CurrentRequest(i))
         /\ inputBuffer' = inputBuffer
         /\ messages' = messages]_vars

\* A tool failure has been written as an error response and a response to a
\* later request has been written after it.
C7_Witness ==
  \E k \in 1..Len(stdout) :
    /\ \E j \in 1..Len(stdout[k]) : stdout[k][j] = "e000"
    /\ WrittenIds # ResponseIds(stdout[k])
    /\ k < Len(stdout) \/ Len(ResponseIds(stdout[k])) = 2

\* ------------------------------------------------------------------ C8
\* This step is handleRequest for a request of activation i whose method is
\* none of the four known ones.
UnknownMethodStep(i) ==
  /\ AtRequest(i)
  /\ CurrentRequest(i).kind # "null"
  /\ CurrentRequest(i).method \notin
       {"initialize", "tools/list", "tools/call", "notifications/initialized"}
  /\ debugLog' # debugLog

\* C8: a request with an unknown method is answered with an error with code
\* -32601 and the request's id, and the session store and the Telegram
\* collaborator are left as they were.
C8_UnknownMethodIsMethodNotFound ==
  [][\A i \in Activations :
       UnknownMethodStep(i) =>
         /\ Len(drains') = Len(drains)
         /\ drains'[i].next = drains[i].next + 1
         /\ Len(drains'[i].responses) = Len(drains[i].responses) + 1
         /\ LET r == drains'[i].responses[Len(drains'[i].responses)]
            IN  /\ r.kind = "error"
                /\ r.code = -32601
                /\ r.id = IdOrNull(CurrentRequest(i))
         /\ UNCHANGED <<messages, nextId, telegramSent>>]_vars

\* The error response to a ping request has been written.
C8_Witness ==
  /\ \E k \in 1..Len(debugLog) : debugLog[k].ev = "request" /\ debugLog[k].method = "ping"
  /\ \E k \in 1..Len(stdout) : \E j \in 1..Len(stdout[k]) : stdout[k][j] = "e601"

\* ------------------------------------------------------------------ C9
IsNotification(request) ==
  request.kind # "null" /\ request.method = "notifications/initialized"

\* This step is handleRequest for a notifications/initialized request.
NotificationStep(i) ==
  /\ AtRequest(i)
  /\ IsNotification(CurrentRequest(i))
  /\ debugLog' # debugLog

\* This step ends handleIncomingPayload for a payload of notifications only.
NotificationsDoneStep(i) ==
  /\ i \in 1..Len(drains)
  /\ drains[i].pc = "dispatch"
  /\ drains[i].next > Len(drains[i].requests)
  /\ \A j \in 1..Len(drains[i].requests) : IsNotification(drains[i].requests[j])
  /\ drains' # drains

\* C9: a notifications/initialized request adds no response, alone or in a
\* batch, and a payload of such notifications only writes nothing.
C9_NotificationsGetNoResponse ==
  [][\A i \in Activations :
       /\ NotificationStep(i) =>
            /\ Len(drains') = Len(drains)
            /\ drains'[i].responses = drains[i].responses
            /\ drains'[i].next = drains[i].next + 1
            /\ stdout' = stdout
       /\ NotificationsDoneStep(i) => stdout' = stdout]_vars

\* A batch of two notifications has been handled, the server is idle and
\* nothing has been written.
C9_Witness ==
  /\ scenario = <<[fmt |-> "framedLF", body |-> "batchNotifs"]>>
  /\ Quiescent
  /\ Len(debugLog) = 2
  /\ stdout = <<>>

\* ------------------------------------------------------------------ C10
CrLfCrLf == <<"CR", "LF", "CR", "LF">>

\* w is 'Content-Length: <n>\r\n\r\n<body>' with n the byte length of body.
IsFramedWrite(w) ==
  \E n \in 2..Len(w) :
    /\ w[1] = "H"
    /\ AllIn(SubSeq(w, 2, n), DigitSet)
    /\ SubSeq(w, n + 1, n + 4) = CrLfCrLf
    /\ Len(w) - (n + 4) = NumberOf(SubSeq(w, 2, n))
    /\ \A j \in (n + 5)..Len(w) : w[j] \notin {"CR", "LF", "H"}

\* w is '<body>\n'.
IsBareWrite(w) ==
  /\ Len(w) >= 2
  /\ w[Len(w)] = "LF"
  /\ \A j \in 1..(Len(w) - 1) : w[j] \notin {"CR", "LF", "H"}

\* C10: every write carries the responses of one payload, in the wire format
\* in which the client sent that payload.
C10_ResponseMirrorsWireFormat ==
  \A k \in 1..Len(stdout) :
    LET ids == ResponseIds(stdout[k])
    IN  /\ ids # <<>>
        /\ \A j \in 1..Len(ids) :
             ids[j] \in DigitSet =>
               /\ SentFramed(PayloadOfId(ids[j])) => IsFramedWrite(stdout[k])
               /\ scenario[PayloadOfId(ids[j])].fmt = "bare" => IsBareWrite(stdout[k])
        /\ IsFramedWrite(stdout[k]) \/ IsBareWrite(stdout[k])

\* ------------------------------------------------------------------ C11
\* This step ends handleIncomingPayload of activation i.
PayloadDoneStep(i) ==
  /\ i \in 1..Len(drains)
  /\ drains[i].pc = "dispatch"
  /\ drains[i].next > Len(drains[i].requests)
  /\ drains' # drains

\* The ids, as they are written, of the requests of a payload that are
\* answered, in the order of the payload.
AnsweredIds(requests) ==
  LET answered == SelectSeq(requests, LAMBDA r : ~IsNotification(r))
  IN  [k \in 1..Len(answered) |-> IdChar(IdOrNull(answered[k]))]

\* C11: a payload writes nothing when it has no response; otherwise it makes
\* one write that holds its responses in the order of its requests, as one
\* JSON array when the payload was an array with more than one response and
\* as the response object itself when there is exactly one response.
C11_OneWritePerPayload ==
  [][\A i \in Activations :
       PayloadDoneStep(i) =>
         LET responses == drains[i].responses
         IN  /\ responses = <<>> => stdout' = stdout
             /\ responses # <<>> =>
                  /\ Len(stdout') = Len(stdout) + 1
                  /\ SubSeq(stdout', 1, Len(stdout)) = stdout
                  /\ ResponseIds(stdout'[Len(stdout')]) = AnsweredIds(drains[i].requests)
                  /\ (drains[i].isArray /\ Len(responses) > 1) =>
                       /\ Count(stdout'[Len(stdout')], "[") = 1
                       /\ Count(stdout'[Len(stdout')], "]") = 1
                  /\ Len(responses) = 1 => Count(stdout'[Len(stdout')], "[") = 0]_vars

\* An array payload with one response was written as an object, an array
\* payload with two responses as an array.
C11_Witness ==
  /\ Len(scenario) = 2
  /\ scenario[1].body = "batchNotifInit"
  /\ scenario[2].body = "batch"
  /\ Len(stdout) = 2
  /\ Count(stdout[1], "[") = 0 /\ Len(ResponseIds(stdout[1])) = 1
  /\ Count(stdout[2], "[") = 1 /\ Len(ResponseIds(stdout[2])) = 2

\* ------------------------------------------------------------------ C12
\* The p-th payload is a framed request whose body holds a multibyte
\* character.
FramedMultiByte(p) ==
  /\ SentFramed(p)
  /\ WellFormed(p)
  /\ ~SentPayload(p).isArray
  /\ SentPayload(p).items[1].wide > 0

\* The number of bytes of the stream up to the end of the p-th payload.
EndOf(p) == Len(StreamOf(SubSeq(scenario, 1, p)))

C30_ArrivalsDuringDrainAreDrained ==
  /\ Len(drains) <= 1
  /\ Len(inputBuffer) <= pos
  /\ inputBuffer = SubSeq(stream, pos - Len(inputBuffer) + 1, pos)
  /\ (arrivedDuringDrain /\ drains = <<>>) => ~PayloadReady(inputBuffer)

\* ------------------------------------------------------------------ C31
\* The run is a valid bare request line followed by a valid framed request.
BareThenFramed ==
  /\ Len(scenario) = 2
  /\ scenario[1].fmt = "bare" /\ WellFormed(1) /\ ~SentPayload(1).isArray
  /\ SentFramed(2) /\ WellFormed(2) /\ ~SentPayload(2).isArray

\* The writes that hold the response to request id.
WritesOf(id) == {k \in 1..Len(stdout) : Count(ResponseIds(stdout[k]), id) > 0}

\* C31: the wire format is detected per payload: of a bare request line
\* followed by a framed request both are dispatched, and when the server
\* has gone idle the first is answered as a bare line and the second as a
\* frame.
C31_BareThenFramedBothDispatched ==
  (BareThenFramed /\ Quiescent) =>
    LET first  == SentPayload(1).items[1]
        second == SentPayload(2).items[1]
    IN  /\ Count(DispatchedIds, IdOrNull(first)) = 1
        /\ Count(DispatchedIds, IdOrNull(second)) = 1
        /\ ~IsNotification(first) =>
             /\ WritesOf(first.id) # {}
             /\ \A k \in WritesOf(first.id) : IsBareWrite(stdout[k])
        /\ ~IsNotification(second) =>
             /\ WritesOf(second.id) # {}
             /\ \A k \in WritesOf(second.id) : IsFramedWrite(stdout[k])

\* ------------------------------------------------------------------ C32
\* The header block at the head of the buffer: the bytes in front of the
\* first blank line, and the bytes behind that blank line.
HeaderBlock(buffer) ==
  LET hits == {i \in 1..Len(buffer) : SeparatorAt(buffer, i) > 0}
  IN  IF hits = {} THEN [found |-> FALSE, header |-> <<>>, rest |-> <<>>]
      ELSE LET i == CHOOSE h \in hits : \A g \in hits : h <= g
           IN  [found |-> TRUE, header |-> SubSeq(buffer, 1, i - 1),
                rest |-> SubSeq(buffer, i + SeparatorAt(buffer, i), Len(buffer))]

\* The drain is at the head of its loop and the buffer starts with a header
\* block that has no valid Content-Length line.
AtInvalidHeaderBlock(i) ==
  /\ AtLoop(i)
  /\ HeaderBlock(inputBuffer).found
  /\ ~contentLengthMatch(Utf8Decode(HeaderBlock(inputBuffer).header)).found

IsTailOf(s, t) ==
  Len(s) <= Len(t) /\ s = SubSeq(t, Len(t) - Len(s) + 1, Len(t))

\* Activation i leaves the loop of drainInputBuffer without an exception.
DrainBreaks(i) ==
  /\ AtLoop(i)
  /\ Len(drains') < Len(drains)
  /\ Len(debugLog') = Len(debugLog) \/ debugLog'[Len(debugLog')].ev # "drain_error"

\* C33: the bytes of a payload leave the buffer in the step that hands its
\* requests to handleIncomingPayload, no request is dispatched twice, a drain
\* that breaks on an incomplete payload leaves the buffer as it is, and
\* between drains the buffer only grows by the chunks that arrive.
C33_PayloadConsumedBeforeDispatch ==
  [][/\ \A i \in 1..Len(drains) :
          /\ (AtLoop(i) /\ Len(drains') = Len(drains) /\ drains'[i].pc = "dispatch")
               => (Len(inputBuffer') < Len(inputBuffer) /\ IsTailOf(inputBuffer', inputBuffer))
          /\ (drains[i].pc \in {"dispatch", "await"} /\ Len(drains') = Len(drains))
               => \E k \in 0..(pos' - pos) :
                    inputBuffer' = inputBuffer \o SubSeq(stream, pos + 1, pos + k)
          /\ DrainBreaks(i) => inputBuffer' = inputBuffer
     /\ drains = <<>> => inputBuffer' = inputBuffer \o SubSeq(stream, pos + 1, pos')
     /\ \A id \in DigitSet : Count(DispatchedIds', id) <= 1]_vars

\* A frame is in the buffer without the end of its body, after an earlier
\* request was dispatched and the drain has returned.
C33_Witness ==
  /\ Len(DispatchedIds) >= 1
  /\ drains = <<>> /\ ~processing
  /\ inputBuffer # <<>>
  /\ HasLength(inputBuffer, findHeaderSeparator(inputBuffer))
  /\ Len(inputBuffer) < BodyEnd(inputBuffer, findHeaderSeparator(inputBuffer))

\* ------------------------------------------------------------------ C34
\* C34: processing is true exactly while an activation of drainInputBuffer
\* is executing, however the last one ended, and a chunk that arrives when
\* none is executing starts one.
C34_FlagResetWhenDrainEnds ==
  [][/\ drains' = <<>> => ~processing'
     /\ drains' # <<>> => processing'
     /\ (drains = <<>> /\ pos' > pos) => (Len(drains') = 1 /\ drains'[1].pc = "loop")]_vars

\* A drain ended in the catch clause, and a chunk that arrived afterwards
\* has started a new drain.
C34_Witness ==
  /\ BodyParseFailed
  /\ debugLog[Len(debugLog)].ev = "drain_error"
  /\ Len(drains) = 1 /\ drains[1].pc = "loop"
  /\ processing

\* ============================================================ SessionStore
\* A second specification: the methods of SessionStore called directly, as
\* the daemon and the tests call them, on a store that starts empty.

\* Largest value of the clock Date.now(), in ticks.
MaxClock == 3

\* Largest number of appends of a run: enough to take one thread over the cap.
MaxAppends == SessionRetentionMessages + 1

Chats == {1, 2}

StoreTopics == {DefaultTopic, "work"}

\* The messages a caller appends.  A content is a string over the characters
\* a, A, b, % and _.
AppendInputs ==
  { [chatId |-> 1, topic |-> DefaultTopic, role |-> "user",
     content |-> <<"a", "b">>, agent |-> DefaultAgent],
    [chatId |-> 1, topic |-> DefaultTopic, role |-> "assistant",
     content |-> <<"A">>, agent |-> "coder"],
    [chatId |-> 1, topic |-> "work", role |-> "user",
     content |-> <<"a", "b">>, agent |-> DefaultAgent],
    [chatId |-> 2, topic |-> DefaultTopic, role |-> "user",
     content |-> <<"A">>, agent |-> DefaultAgent] }

Keywords == {<<>>, <<"a">>, <<"_">>}

HistoryQueries ==
  [chatId : Chats, topic : {None, Some("work")},
   limit : {None, Some(0), Some(1), Some(-1)}]

SearchQueries == [chatId : Chats, keyword : Keywords, limit : {None, Some(1)}]

ContinueLimits == {1, 20}

\* The chatId argument of listThreads: absent, or a number.
ThreadFilters == {None, Some(0), Some(1), Some(2)}

\* The MCP server has read no input and runs no handler.
ServerIdle ==
  /\ scenario = <<>>
  /\ stream = <<>>
  /\ pos = 0
  /\ inputBuffer = <<>>
  /\ processing = FALSE
  /\ loggedNoSeparatorSample = FALSE
  /\ drains = <<>>
  /\ stdout = <<>>
  /\ debugLog = <<>>
  /\ arrivedDuringDrain = FALSE

serverVars ==
  <<scenario, stream, pos, inputBuffer, processing, loggedNoSeparatorSample, drains,
    stdout, debugLog, arrivedDuringDrain>>

\* new SessionStore(config) on a database file that does not exist yet.
StoreInit ==
  /\ ServerIdle
  /\ DaemonIdle
  /\ telegramBotToken = TRUE
  /\ messages = {}
  /\ nextId = 1
  /\ now = 0
  /\ telegramSent = 0
  /\ bridgeState = {}
  /\ selectedModel = {}
  /\ lastCall = NoCall

\* Time passes between two calls.
ClockTicks ==
  /\ now < MaxClock
  /\ now' = now + 1
  /\ UNCHANGED <<serverVars, daemonVars, telegramBotToken, messages, nextId, telegramSent, bridgeVars>>

\* What a call leaves in lastCall.
\*   result    the messages the call returned, in the order returned
\*   value     the value the call returned
\*   appended  the message returned by the latest append
\*   refused   a Telegram tool has been refused for the missing token
\*   written   the offset given to the latest setOffset and the store instance
\*             it was given to
\*   opened    the number of store instances opened on the database file
Called(op, query, result, value) ==
  [op |-> op, query |-> query, result |-> result, value |-> value,
   appended |-> lastCall.appended, refused |-> lastCall.refused,
   written |-> lastCall.written, opened |-> lastCall.opened]

\* store.append(message), in a run of at most most appends.
StoreAppendUpTo(message, most) ==
  LET rowId == autoincrement(messages, nextId)
  IN  /\ nextId <= most
      /\ messages' \in append(messages, rowId, message, now)
      /\ nextId' = nextId + 1
      /\ lastCall' = [Called("append", message, <<InsertedRow(rowId, message, now)>>,
                             InsertedRow(rowId, message, now))
                        EXCEPT !.appended = Some(InsertedRow(rowId, message, now))]
      /\ UNCHANGED <<serverVars, daemonVars, telegramBotToken, now, telegramSent, bridgeState,
                     selectedModel>>

StoreAppend(message) == StoreAppendUpTo(message, MaxAppends)

\* store.getHistory(query)
StoreGetHistory(query) ==
  /\ \E result \in getHistory(messages, query) :
       lastCall' = Called("getHistory", query, result, result)
  /\ UNCHANGED <<serverVars, daemonVars, telegramBotToken, messages, nextId, now, telegramSent,
                 bridgeState, selectedModel>>

\* store.search(query)
StoreSearch(query) ==
  /\ \E result \in search(messages, query) :
       lastCall' = Called("search", query, result, result)
  /\ UNCHANGED <<serverVars, daemonVars, telegramBotToken, messages, nextId, now, telegramSent,
                 bridgeState, selectedModel>>

\* store.continueContext(chatId, topic, limit)
StoreContinueContext(chatId, topic, limit) ==
  /\ \E context \in continueContext(messages, chatId, topic, limit) :
       lastCall' = Called("continueContext",
                          [chatId |-> chatId, topic |-> Some(topic), limit |-> Some(limit)],
                          context.messages, context)
  /\ UNCHANGED <<serverVars, daemonVars, telegramBotToken, messages, nextId, now, telegramSent,
                 bridgeState, selectedModel>>

\* store.listThreads(chatId)
StoreListThreads(chatId) ==
  /\ \E threads \in listThreads(messages, chatId) :
       lastCall' = Called("listThreads", [chatId |-> chatId], <<>>, threads)
  /\ UNCHANGED <<serverVars, daemonVars, telegramBotToken, messages, nextId, now, telegramSent,
                 bridgeState, selectedModel>>

StoreNext ==
  \/ ClockTicks
  \/ \E message \in AppendInputs : StoreAppend(message)
  \/ \E query \in HistoryQueries : StoreGetHistory(query)
  \/ \E query \in SearchQueries : StoreSearch(query)
  \/ \E chatId \in Chats : \E topic \in StoreTopics : \E limit \in ContinueLimits :
       StoreContinueContext(chatId, topic, limit)
  \/ \E chatId \in ThreadFilters : StoreListThreads(chatId)

StoreSpec == StoreInit /\ [][StoreNext]_vars

\* ------------------------------------------- what the store should return
\* The order of the messages of a thread: by createdAt, then by id.
Before(a, b) ==
  a.createdAt < b.createdAt \/ (a.createdAt = b.createdAt /\ a.id < b.id)

RowsOf(result) == {result[i] : i \in 1..Len(result)}

\* The n latest rows of a set of rows.
MostRecent(rows, n) ==
  {r \in rows : Cardinality({x \in rows : Before(r, x)}) < n}

Smaller(a, b) == IF a < b THEN a ELSE b

\* keyword occurs in text as it is written.
Contains(text, keyword) ==
  \E i \in 0..(Len(text) - Len(keyword)) :
    SubSeq(text, i + 1, i + Len(keyword)) = keyword

\* The thread a getHistory query reads, and the number of rows it asks for.
QueriedThread(query) == ThreadRows(messages, query.chatId, OrElse(query.topic, DefaultTopic))

QueriedLimit(query) == OrElse(query.limit, SessionRetentionMessages)

\* ------------------------------------------------------------------ C15
\* C15: a getHistory of the thread of the latest append, asking for at least
\* one message, returns the appended message as its last element, with the
\* role and content it was appended with.
C15_AppendedMessageIsLastOfHistory ==
  ( /\ lastCall.op = "getHistory"
    /\ lastCall.appended # None
    /\ lastCall.query.chatId = lastCall.appended[1].chatId
    /\ OrElse(lastCall.query.topic, DefaultTopic) = lastCall.appended[1].topic
    /\ QueriedLimit(lastCall.query) >= 1 )
  => /\ lastCall.result # <<>>
     /\ lastCall.result[Len(lastCall.result)].id = lastCall.appended[1].id
     /\ lastCall.result[Len(lastCall.result)].role = lastCall.appended[1].role
     /\ lastCall.result[Len(lastCall.result)].content = lastCall.appended[1].content

\* ------------------------------------------------------------------ C16
\* C16: no thread ever holds more than cap messages; an append deletes from
\* its thread only messages that are older, by (createdAt, id), than all it
\* keeps, and exactly the surplus over the cap when no message has expired;
\* getHistory returns at most cap rows whatever the limit.
C16_CapEvictsOldestSurplus ==
  [][ /\ \A chatId \in Chats : \A topic \in StoreTopics :
           Cardinality(ThreadRows(messages', chatId, topic)) <= SessionRetentionMessages
      /\ nextId' # nextId =>
           LET row     == lastCall'.appended[1]
               thread  == ThreadRows(messages \cup {row}, row.chatId, row.topic)
               kept    == ThreadRows(messages', row.chatId, row.topic)
               surplus == IF Cardinality(thread) > SessionRetentionMessages
                          THEN Cardinality(thread) - SessionRetentionMessages ELSE 0
           IN  /\ kept \subseteq thread
               /\ \A d \in thread \ kept : \A k \in kept : Before(d, k)
               /\ (\A r \in thread : r.createdAt >= now - SessionRetentionTicks)
                    => Cardinality(thread \ kept) = surplus
      /\ lastCall'.op = "getHistory" =>
           Len(lastCall'.result) <= SessionRetentionMessages ]_vars

\* ------------------------------------------------------------------ C17
\* C17: getHistory and continueContext return messages in ascending
\* (createdAt, id) order, search in descending (createdAt, id) order.
C17_ReadsOrderedByCreatedAtThenId ==
  /\ lastCall.op \in {"getHistory", "continueContext"} =>
       \A i, j \in 1..Len(lastCall.result) :
         i < j => Before(lastCall.result[i], lastCall.result[j])
  /\ lastCall.op = "search" =>
       \A i, j \in 1..Len(lastCall.result) :
         i < j => Before(lastCall.result[j], lastCall.result[i])

\* ------------------------------------------------------------------ C18
\* C18: getHistory with a limit that is a count returns min(limit, size of
\* the thread) messages, the latest ones of the thread (chatId, topic) and
\* of no other; without topic it reads the default topic, without limit it
\* returns up to cap messages.
C18_HistoryIsLatestOfThread ==
  ( /\ lastCall.op = "getHistory"
    /\ QueriedLimit(lastCall.query) >= 0 )
  => LET thread == QueriedThread(lastCall.query)
         n      == Smaller(QueriedLimit(lastCall.query), Cardinality(thread))
     IN  /\ Len(lastCall.result) = n
         /\ RowsOf(lastCall.result) = MostRecent(thread, n)

\* ------------------------------------------------------------------ C21
\* The newest message of a non-empty set of rows, by (createdAt, id).
Newest(rows) == CHOOSE r \in rows : \A x \in rows : ~Before(r, x)

\* C21: continueContext with a limit of at least one returns the last limit
\* messages of the thread and the agent of the newest message of the thread;
\* on a thread without messages it returns no message, the default agent
\* and the placeholder summary, which is not empty.
C21_ContinueContextIsTailOfThread ==
  ( /\ lastCall.op = "continueContext"
    /\ QueriedLimit(lastCall.query) >= 1 )
  => LET thread == QueriedThread(lastCall.query)
         n      == Smaller(QueriedLimit(lastCall.query), Cardinality(thread))
     IN  /\ Len(lastCall.value.messages) = n
         /\ RowsOf(lastCall.value.messages) = MostRecent(thread, n)
         /\ thread # {} => lastCall.value.agent = Newest(thread).agent
         /\ thread = {} =>
              /\ lastCall.value.messages = <<>>
              /\ lastCall.value.agent = DefaultAgent
              /\ lastCall.value.summary # <<>>
              /\ \A i \in 1..Len(lastCall.value.summary) :
                   lastCall.value.summary[i].content # <<>>

\* ------------------------------------------------------------------ C19
\* C19: search never returns a message of another chat than the one asked
\* for, whatever the store holds and whatever the keyword.
C19_SearchStaysInChat ==
  lastCall.op = "search" =>
    \A i \in 1..Len(lastCall.result) : lastCall.result[i].chatId = lastCall.query.chatId

\* A search found a message of its chat while a message of the other chat
\* matches the keyword too.
C19_Witness ==
  /\ lastCall.op = "search"
  /\ lastCall.result # <<>>
  /\ \E r \in messages :
       /\ r.chatId # lastCall.query.chatId
       /\ Like(r.content, <<"%">> \o lastCall.query.keyword \o <<"%">>)

\* ------------------------------------------------------------------ C20
\* The messages of a chat whose content contains the keyword.
Matching(chatId, keyword) ==
  {r \in messages : r.chatId = chatId /\ Contains(r.content, keyword)}

\* C20: search with a limit that is a count returns messages that contain
\* the keyword literally, at most limit of them, and they are the latest
\* such messages of the chat over all its topics.
C20_SearchReturnsLatestLiteralMatches ==
  ( /\ lastCall.op = "search"
    /\ lastCall.query.keyword # <<>>
    /\ QueriedLimit(lastCall.query) >= 0 )
  => LET matching == Matching(lastCall.query.chatId, lastCall.query.keyword)
         n        == Smaller(QueriedLimit(lastCall.query), Cardinality(matching))
     IN  /\ \A i \in 1..Len(lastCall.result) :
              Contains(lastCall.result[i].content, lastCall.query.keyword)
         /\ Len(lastCall.result) <= QueriedLimit(lastCall.query)
         /\ RowsOf(lastCall.result) = MostRecent(matching, n)

\* ------------------------------------------------------------------ C23
\* C23: right after an append no stored message, of any thread, is older
\* than the retention horizon (now minus the retention time), and a message
\* within the horizon that the append deleted is one of the thread appended
\* to, where the cap deletes: the sweep by time deleted none within the
\* horizon.
C23_AppendSweepsExpiredOnly ==
  [][ nextId' # nextId =>
        LET row    == lastCall'.appended[1]
            before == messages \cup {row}
        IN  /\ \A r \in messages' : r.createdAt >= now' - SessionRetentionTicks
            /\ \A r \in before \ messages' :
                 r.createdAt >= now' - SessionRetentionTicks
                   => (r.chatId = row.chatId /\ r.topic = row.topic) ]_vars

\* The second append of a run has just completed and the message of the
\* first, which had expired, is gone: the cap of two did not delete it.
C23_Witness ==
  /\ lastCall.op = "append"
  /\ nextId = 3
  /\ messages = {lastCall.appended[1]}
  /\ lastCall.appended[1].id = 2
  /\ lastCall.appended[1].createdAt = MaxClock

\* ------------------------------------------------------------------ C24
\* The threads that have a stored message, and those a result names.
StoredThreads == {[chatId |-> r.chatId, topic |-> r.topic] : r \in messages}

ListedThreads(threads) ==
  {[chatId |-> threads[i].chatId, topic |-> threads[i].topic] : i \in 1..Len(threads)}

\* C24: listThreads with a chatId, 0 included, returns the threads of that
\* chat, all of them and no other; without one, the threads of all chats.
C24_ListThreadsFiltersByChat ==
  lastCall.op = "listThreads" =>
    ListedThreads(lastCall.value) =
      IF lastCall.query.chatId = None THEN StoredThreads
      ELSE {t \in StoredThreads : t.chatId = lastCall.query.chatId[1]}

\* ------------------------------------------------------------------ C25
\* C25: every thread a listThreads names once, has a stored message, is
\* listed with the number of its stored messages and the createdAt of its
\* newest one; a call without chatId, or with the chatId of the thread,
\* names every thread that has a stored message.
C25_ThreadsAreViewOfMessages ==
  lastCall.op = "listThreads" =>
    /\ Cardinality(ListedThreads(lastCall.value)) = Len(lastCall.value)
    /\ \A i \in 1..Len(lastCall.value) :
         LET listed == lastCall.value[i]
             thread == ThreadRows(messages, listed.chatId, listed.topic)
         IN  /\ thread # {}
             /\ listed.messageCount = Cardinality(thread)
             /\ listed.updatedAt = Newest(thread).createdAt
    /\ \A t \in StoredThreads :
         (lastCall.query.chatId = None \/ lastCall.query.chatId = Some(t.chatId))
           => t \in ListedThreads(lastCall.value)

\* listThreads names two threads, one of them of two messages appended at
\* different times.
C25_Witness ==
  /\ lastCall.op = "listThreads"
  /\ Len(lastCall.value) = 2
  /\ \E i \in 1..2 :
       /\ lastCall.value[i].messageCount = 2
       /\ \E r \in messages :
            /\ r.chatId = lastCall.value[i].chatId
            /\ r.topic = lastCall.value[i].topic
            /\ r.createdAt < lastCall.value[i].updatedAt

\* ============================================================ bridge_state
\* A fourth specification: the offset of the Telegram poll, written and read
\* through SessionStore by store instances opened one after the other on the
\* same database file.

\* Largest number of store instances opened on the database file.
MaxOpened == 3

\* The offsets a caller stores.
OffsetInputs == {0, 7, 99}

\* The constructor of SessionStore on a database file that exists: CREATE
\* TABLE IF NOT EXISTS leaves a table that exists as it is.
createTable(table) == table

\* new SessionStore(config) on the database file of the instance before.
StoreOpen ==
  /\ lastCall.opened < MaxOpened
  /\ bridgeState' = createTable(bridgeState)
  /\ lastCall' = [Called("open", <<>>, <<>>, <<>>) EXCEPT !.opened = @ + 1]
  /\ UNCHANGED <<serverVars, daemonVars, telegramBotToken, messages, nextId, now, telegramSent,
                 selectedModel>>

\* store.setOffset(value)
StoreSetOffset(value) ==
  /\ bridgeState' = setOffset(bridgeState, value, now)
  /\ lastCall' = [Called("setOffset", <<value>>, <<>>, <<value>>)
                    EXCEPT !.written = Some([value |-> value, by |-> lastCall.opened])]
  /\ UNCHANGED <<serverVars, daemonVars, telegramBotToken, messages, nextId, now, telegramSent,
                 selectedModel>>

\* store.getOffset()
StoreGetOffset ==
  /\ lastCall' = Called("getOffset", <<>>, <<>>, <<getOffset(bridgeState)>>)
  /\ UNCHANGED <<serverVars, daemonVars, telegramBotToken, messages, nextId, now, telegramSent,
                 bridgeState, selectedModel>>

OffsetNext ==
  \/ ClockTicks
  \/ StoreOpen
  \/ \E value \in OffsetInputs : StoreSetOffset(value)
  \/ StoreGetOffset

OffsetSpec == StoreInit /\ [][OffsetNext]_vars

\* ------------------------------------------------------------------ C22
\* C22: getOffset returns the value of the latest setOffset, 0 when there
\* was none, whichever store instance on the database file made the calls;
\* bridge_state never holds two rows of the offset key.
C22_OffsetIsLastWritten ==
  /\ Cardinality({r \in bridgeState : r.key = OffsetKey}) <= 1
  /\ lastCall.op = "getOffset" =>
       lastCall.value = <<IF lastCall.written = None THEN 0 ELSE lastCall.written[1].value>>

\* A store instance reads the offset 99 that an earlier instance wrote, at a
\* later time than the first write of the key.
C22_Witness ==
  /\ lastCall.op = "getOffset"
  /\ lastCall.written # None
  /\ lastCall.written[1].value = 99
  /\ lastCall.written[1].by < lastCall.opened
  /\ \E r \in bridgeState : r.key = OffsetKey /\ r.updatedAt > 0

\* ================================================================ topic.ts
\* A fifth specification: parseTelegramText applied to a text, with and
\* without a current topic and a current agent.

\* Largest number of lexemes of an input text.
MaxInput == 4

\* The texts of n lexemes: two lexemes that are not white space never follow
\* each other, they would be one lexeme.
RECURSIVE TextsOfLength(_)
TextsOfLength(n) ==
  IF n = 0 THEN {<<>>}
  ELSE {Append(p[1], p[2]) :
          p \in {q \in TextsOfLength(n - 1) \X Lexemes :
                   q[1] = <<>> \/ q[1][Len(q[1])] \in Blank \/ q[2] \in Blank}}

\* The arguments of a call: the input is absent or a text of at most longest
\* lexemes.
ParseInputs(longest) ==
  [input : {None} \cup {Some(t) : t \in UNION {TextsOfLength(n) : n \in 0..longest}},
   currentTopic : {None, Some("ops")},
   currentAgent : {None, Some("coder")}]

ParseInit ==
  /\ ServerIdle
  /\ DaemonIdle
  /\ telegramBotToken = TRUE
  /\ messages = {}
  /\ nextId = 1
  /\ now = 0
  /\ telegramSent = 0
  /\ bridgeState = {}
  /\ selectedModel = {}
  /\ \E arguments \in ParseInputs(MaxInput) :
       lastCall = [NoCall EXCEPT !.op = "input", !.query = arguments]

\* parseTelegramText(input, config, currentTopic, currentAgent)
Parse ==
  /\ lastCall.op = "input"
  /\ lastCall' = Called("parseTelegramText", lastCall.query, <<>>,
                        parseTelegramText(lastCall.query.input, Config,
                                          lastCall.query.currentTopic,
                                          lastCall.query.currentAgent))
  /\ UNCHANGED <<serverVars, daemonVars, telegramBotToken, messages, nextId, now, telegramSent,
                 bridgeState, selectedModel>>

ParseNext == Parse

ParseSpec == ParseInit /\ [][ParseNext]_vars

\* The text given to the call that returned, the empty text when absent.
GivenText == OrElse(lastCall.query.input, <<>>)

\* The topic and the agent the call was given, the defaults when absent.
GivenTopic == OrElse(lastCall.query.currentTopic, DefaultTopic)

GivenAgent == OrElse(lastCall.query.currentAgent, DefaultAgent)

\* ------------------------------------------------------------------ C28
\* C28 as stated: an input that is no command is returned as the text,
\* unchanged, with the topic and the agent passed in or the defaults.
C28_PlainTextCarriedUnchanged ==
  (lastCall.op = "parseTelegramText" /\ lastCall.value.command = None)
  => /\ lastCall.value.text = GivenText
     /\ lastCall.value.topic = GivenTopic
     /\ lastCall.value.agent = GivenAgent

\* text is the given text without the white space at its start and end.
IsTrimmed(text, given) ==
  /\ text = <<>> \/ (text[1] \notin Blank /\ text[Len(text)] \notin Blank)
  /\ \E i \in 0..Len(given) : \E j \in i..Len(given) :
       /\ text = SubSeq(given, i + 1, j)
       /\ \A k \in 1..Len(given) : (k <= i \/ k > j) => given[k] \in Blank

\* C28, amended: an input that is no command is returned as the text without
\* the white space at its start and end, the empty text for an absent input,
\* with the topic and the agent passed in or the defaults.
C28_PlainTextCarriedTrimmed ==
  (lastCall.op = "parseTelegramText" /\ lastCall.value.command = None)
  => /\ IsTrimmed(lastCall.value.text, GivenText)
     /\ lastCall.value.topic = GivenTopic
     /\ lastCall.value.agent = GivenAgent
     /\ lastCall.value.mode = None
     /\ lastCall.value.keyword = None

\* A text of two words and white space after them came back as plain text,
\* with the topic and the agent passed in.
C28_Witness ==
  /\ lastCall.op = "parseTelegramText"
  /\ lastCall.value.command = None
  /\ lastCall.query.currentTopic = Some("ops")
  /\ lastCall.query.currentAgent = Some("coder")
  /\ Len(lastCall.value.text) = 3
  /\ Len(GivenText) = 4
  /\ GivenText[4] \in Blank

\* ------------------------------------------------------------------ C29
\* The given text is the command word, white space and one more lexeme.
IsCommandWith(word, lexemes) ==
  /\ Len(GivenText) = 3
  /\ GivenText[1] = word
  /\ GivenText[2] = " "
  /\ GivenText[3] \in lexemes

\* The given text is /history alone or /history, white space and a keyword.
IsHistory(lineTerminators) ==
  \/ GivenText = <<"/history">>
  \/ /\ Len(GivenText) >= 3
     /\ GivenText[1] = "/history"
     /\ GivenText[2] = " "
     /\ GivenText[3] \notin Blank
     /\ GivenText[Len(GivenText)] \notin Blank
     /\ lineTerminators \/ \A i \in 1..Len(GivenText) : GivenText[i] # "\n"

\* What C29 says of the four commands, for names out of the given lexemes.
Classified(names, profiles, lineTerminators) ==
  /\ IsCommandWith("/topic", names) =>
       /\ lastCall.value.command = Some("topic")
       /\ lastCall.value.topic = GivenText[3]
       /\ lastCall.value.agent = GivenAgent
  /\ IsCommandWith("/agent", profiles) =>
       /\ lastCall.value.command = Some("agent")
       /\ lastCall.value.agent = GivenText[3]
       /\ lastCall.value.topic = GivenTopic
  /\ IsHistory(lineTerminators) =>
       /\ lastCall.value.command = Some("history")
       /\ lastCall.value.topic = GivenTopic
       /\ lastCall.value.agent = GivenAgent
  /\ IsCommandWith("/mode", {"manual", "auto"}) =>
       /\ lastCall.value.command = Some("mode")
       /\ lastCall.value.mode = Some(GivenText[3])
       /\ lastCall.value.topic = GivenTopic
       /\ lastCall.value.agent = GivenAgent
  /\ lastCall.value.command \in
       {None, Some("topic"), Some("agent"), Some("history"), Some("mode")}

\* C29 as stated: /topic with any name is the command topic with that name
\* as topic and the agent unchanged, /agent with any profile the command
\* agent with that profile as agent and the topic unchanged, /history with
\* or without a keyword and /mode manual or auto the commands history and
\* mode with topic and agent unchanged; each input is one variant.
C29_CommandsClassified ==
  lastCall.op = "parseTelegramText" =>
    Classified(Lexemes \ Blank, Lexemes \ Blank, TRUE)

\* C29, amended: the same for a name of 1 to 64 letters, digits, underscores
\* and hyphens, a profile of 1 to 64 of those and dots, and a keyword on one
\* line; /topic and /agent with any other name or profile are plain text.
C29_CommandsClassifiedInCharset ==
  lastCall.op = "parseTelegramText" =>
    /\ Classified(WordNames, DottedNames, FALSE)
    /\ (\/ IsCommandWith("/topic", (Lexemes \ Blank) \ WordNames)
        \/ IsCommandWith("/agent", (Lexemes \ Blank) \ DottedNames))
         => /\ lastCall.value.command = None
            /\ lastCall.value.text = GivenText

\* /agent with a dotted profile was classified while a topic was current.
C29_Witness ==
  /\ lastCall.op = "parseTelegramText"
  /\ GivenText = <<"/agent", " ", "v1.2">>
  /\ lastCall.query.currentTopic = Some("ops")
  /\ lastCall.value.command = Some("agent")
  /\ lastCall.value.topic = "ops"

\* ================================================================ the log
\* A seventh specification: every method of SessionStore called on one
\* store, the appends going to two threads of one chat, so that the cap
\* sweep of one thread runs while the other thread holds messages.

\* Largest number of appends of such a run: a thread goes over the cap while
\* the other thread holds a message.
MaxLogAppends == 4

LogAppends == {message \in AppendInputs : message.chatId = 1 /\ message.role = "user"}

\* store.getCurrentProfile(chatId, topic)
StoreGetCurrentProfile(chatId, topic) ==
  /\ \E profile \in getCurrentProfile(messages, chatId, topic) :
       lastCall' = Called("getCurrentProfile", [chatId |-> chatId, topic |-> Some(topic)],
                          <<>>, profile)
  /\ UNCHANGED <<serverVars, daemonVars, telegramBotToken, messages, nextId, now, telegramSent,
                 bridgeState, selectedModel>>

LogNext ==
  \/ ClockTicks
  \/ \E message \in LogAppends : StoreAppendUpTo(message, MaxLogAppends)
  \/ StoreGetHistory([chatId |-> 1, topic |-> None, limit |-> None])
  \/ StoreSearch([chatId |-> 1, keyword |-> <<"a">>, limit |-> None])
  \/ StoreListThreads(None)
  \/ StoreContinueContext(1, DefaultTopic, 20)
  \/ StoreGetCurrentProfile(1, DefaultTopic)
  \/ StoreGetOffset
  \/ StoreSetOffset(7)

LogSpec == StoreInit /\ [][LogNext]_vars

\* ------------------------------------------------------------------ C35
\* The messages that are older than the retention horizon at time nowTime.
Expired(rows, nowTime) == {r \in rows : r.createdAt < nowTime - SessionRetentionTicks}

\* C35: a stored message is never changed and leaves the log only in an
\* append, by the sweep of the thread appended to or by the sweep of expired
\* messages; every other method leaves the log as it is, and an append
\* leaves the stored offset as it is.
C35_LogChangedOnlyByAppend ==
  [][/\ nextId' = nextId => messages' = messages
     /\ nextId' # nextId =>
          LET row == lastCall'.appended[1]
          IN  /\ bridgeState' = bridgeState
              /\ messages' \subseteq messages \cup {row}
              /\ \A r \in messages \ messages' :
                   \/ r \in Expired(messages, now)
                   \/ /\ r.chatId = row.chatId /\ r.topic = row.topic
                      /\ Cardinality(ThreadRows(messages, row.chatId, row.topic))
                           >= SessionRetentionMessages]_vars

\* An offset is stored, messages are stored, and the latest call was a read
\* of the offset, of the history or of the threads.
C35_Witness ==
  /\ bridgeState # {}
  /\ Cardinality(messages) >= 2
  /\ lastCall.op \in {"getOffset", "getHistory", "listThreads", "setOffset"}
  /\ lastCall.appended # None

\* ------------------------------------------------------------------ C36
\* C36: an append leaves every thread other than the one appended to with
\* the messages it had, less those that expired: the sweep of the cap
\* deletes in the thread appended to only.
C36_CapSweepStaysInThread ==
  [][nextId' # nextId =>
       LET row == lastCall'.appended[1]
       IN  \A chatId \in Chats : \A topic \in StoreTopics :
             (chatId # row.chatId \/ topic # row.topic) =>
               ThreadRows(messages', chatId, topic)
                 = ThreadRows(messages, chatId, topic) \ Expired(messages, now)]_vars

\* The fourth append took its thread over the cap, no message has expired
\* yet, and another thread holds a message.
C36_Witness ==
  /\ lastCall.op = "append"
  /\ nextId = MaxLogAppends + 1
  /\ now <= SessionRetentionTicks
  /\ Cardinality(ThreadRows(messages, lastCall.query.chatId, lastCall.query.topic))
       = SessionRetentionMessages
  /\ Cardinality(messages) = SessionRetentionMessages + 1

\* ------------------------------------------------------------------ C37
\* C37: the id an append assigns is larger than the id of the append before
\* and than every id in the store, and no two stored messages share an id:
\* ids ascend in the order of the appends and are never used again.
C37_IdsAscendAndAreNeverReused ==
  [][nextId' # nextId =>
       LET row == lastCall'.appended[1]
       IN  /\ \A r \in messages : r.id < row.id
           /\ lastCall.appended # None => lastCall.appended[1].id < row.id
           /\ \A a, b \in messages' : a.id = b.id => a = b]_vars

\* The fourth append got id 4 after the third message, which held the
\* highest id, had been deleted by the cap sweep of its own append: no
\* message has expired, and the fourth message is alone in its thread.
C37_Witness ==
  /\ lastCall.op = "append"
  /\ lastCall.appended[1].id = 4
  /\ now <= SessionRetentionTicks
  /\ {r.id : r \in messages} = {1, 2, 4}
  /\ ThreadRows(messages, lastCall.query.chatId, lastCall.query.topic) = {lastCall.appended[1]}

\* ================================================================ callTool
\* A third specification: tools/call requests handled one after the other by
\* handleRequest, for every tool of the server and for both forms of its
\* name.

\* Largest number of messages a run sends through the Telegram API.
MaxSent == 1

\* Largest number of session_append calls of a run.
MaxToolAppends == 2

\* The names of the tools array, in the order tools/list returns them.
tools ==
  << "telegram_fetch_updates", "telegram_send_message", "session_append",
     "session_get_history", "session_search", "session_list_threads",
     "session_continue", "bridge_prepare_message", "bridge_get_start_message",
     "copilot_list_models", "copilot_select_model", "copilot_get_selected_model",
     "bridge_get_offset", "bridge_set_offset" >>

\* The case labels of the switch of callTool: each label with the first
\* label of the case it belongs to.
CaseLabels ==
  { <<"telegram_fetch_updates", "telegram_fetch_updates">>,
    <<"telegram.fetch_updates", "telegram_fetch_updates">>,
    <<"telegram_send_message", "telegram_send_message">>,
    <<"telegram.send_message", "telegram_send_message">>,
    <<"session_append", "session_append">>,
    <<"session.append", "session_append">>,
    <<"session_get_history", "session_get_history">>,
    <<"session.get_history", "session_get_history">>,
    <<"session_search", "session_search">>,
    <<"session.search", "session_search">>,
    <<"session_list_threads", "session_list_threads">>,
    <<"session.list_threads", "session_list_threads">>,
    <<"session_continue", "session_continue">>,
    <<"session.continue", "session_continue">>,
    <<"bridge_prepare_message", "bridge_prepare_message">>,
    <<"bridge.prepare_message", "bridge_prepare_message">>,
    <<"bridge_get_start_message", "bridge_get_start_message">>,
    <<"bridge.get_start_message", "bridge_get_start_message">>,
    <<"copilot_list_models", "copilot_list_models">>,
    <<"copilot.list_models", "copilot_list_models">>,
    <<"copilot_select_model", "copilot_select_model">>,
    <<"copilot.select_model", "copilot_select_model">>,
    <<"copilot_get_selected_model", "copilot_get_selected_model">>,
    <<"copilot.get_selected_model", "copilot_get_selected_model">>,
    <<"bridge_get_offset", "bridge_get_offset">>,
    <<"bridge.get_offset", "bridge_get_offset">>,
    <<"bridge_set_offset", "bridge_set_offset">>,
    <<"bridge.set_offset", "bridge_set_offset">> }

\* Mutant: a switch with the underscore labels only.
callToolCaseWithoutLegacy(name) ==
  IF \E l \in CaseLabels : l[1] = name /\ l[2] = name THEN name ELSE "default"

\* The case the switch of callTool selects for a name.
callToolCase(name) ==
  IF \E l \in CaseLabels : l[1] = name
  THEN (CHOOSE l \in CaseLabels : l[1] = name)[2]
  ELSE "default"

\* The labels of a case.
LabelsOf(case) == {l[1] : l \in {x \in CaseLabels : x[2] = case}}

\* The names a client can call: every case label and a name that is none.
CalledNames == {l[1] : l \in CaseLabels} \cup {"no_such_tool"}

\* ---------------------------------------------------- collaborators' data
\* ModelCatalog: the ids findById knows.
CatalogModels == {DefaultModel, "claude"}

\* SessionStore.getSelectedModel: the model remembered for the thread, or the
\* configured default.
getSelectedModel(selected, chatId, topic) ==
  IF \E s \in selected : s.chatId = chatId /\ s.topic = topic
  THEN (CHOOSE s \in selected : s.chatId = chatId /\ s.topic = topic).modelId
  ELSE DefaultModel

\* SessionStore.setSelectedModel: the remembered models afterwards.
setSelectedModel(selected, chatId, topic, modelId) ==
  {s \in selected : ~(s.chatId = chatId /\ s.topic = topic)}
    \cup {[chatId |-> chatId, topic |-> topic, modelId |-> modelId]}

\* ------------------------------------------------------ outcomes of a call
\* What a call of callTool can come to: the value it returns or the message
\* of the Error it throws, the messages among the value, and the state of the
\* collaborators afterwards.
Untouched ==
  [thrown |-> FALSE, message |-> "", value |-> <<>>, rows |-> <<>>,
   messages |-> messages, nextId |-> nextId, telegramSent |-> telegramSent,
   bridgeState |-> bridgeState, selectedModel |-> selectedModel]

Thrown(message) == [Untouched EXCEPT !.thrown = TRUE, !.message = message]

Returned(value) == [Untouched EXCEPT !.value = value]

ReturnedRows(rows) == [Untouched EXCEPT !.value = rows, !.rows = rows]

TokenRequired == "TELEGRAM_BOT_TOKEN is required for telegram tools"

\* Mutant: the Telegram tools do not look at the token.
assertNothing(token) == TRUE

\* assertTelegramTokenConfigured: TRUE when it returns, FALSE when it throws.
assertTelegramTokenConfigured(token) == token

\* args.limit ? Number(args.limit) : undefined
TruthyNumber(opt) == IF opt = None \/ opt = Some(0) THEN None ELSE opt

\* args.topic ? String(args.topic) : undefined
TruthyString(opt) == IF opt = None \/ opt = Some("") THEN None ELSE opt

\* case 'telegram_fetch_updates'
TelegramFetchUpdates(args, token) ==
  IF ~assertTelegramTokenConfigured(token) THEN {Thrown(TokenRequired)}
  ELSE {Returned("updates"), Thrown("Telegram getUpdates failed")}

\* case 'telegram_send_message'
TelegramSendMessage(args, token) ==
  IF ~assertTelegramTokenConfigured(token) THEN {Thrown(TokenRequired)}
  ELSE {[Returned([ok |-> TRUE, messageId |-> telegramSent + 1])
           EXCEPT !.telegramSent = telegramSent + 1],
        Thrown("Telegram sendMessage failed")}

\* The message case 'session_append' passes to sessions.append.
SessionAppendMessage(args) ==
  [chatId |-> args.chatId, topic |-> OrElse(args.topic, DefaultTopic),
   role |-> OrElse(args.role, "user"), content |-> OrElse(args.content, <<>>),
   agent |-> OrElse(args.agent, DefaultAgent)]

\* case 'session_append'
SessionAppend(args) ==
  {[Returned(InsertedRow(nextId, SessionAppendMessage(args), now))
      EXCEPT !.messages = table, !.nextId = nextId + 1] :
     table \in append(messages, nextId, SessionAppendMessage(args), now)}

\* case 'session_get_history'
SessionGetHistory(args) ==
  {ReturnedRows(result) :
     result \in getHistory(messages, [chatId |-> args.chatId,
                                      topic |-> TruthyString(args.topic),
                                      limit |-> TruthyNumber(args.limit)])}

\* case 'session_search'
SessionSearch(args) ==
  {ReturnedRows(result) :
     result \in search(messages, [chatId |-> args.chatId,
                                  keyword |-> OrElse(args.keyword, <<>>),
                                  limit |-> TruthyNumber(args.limit)])}

\* case 'session_list_threads'
SessionListThreads(args) == {Returned(threads) : threads \in listThreads(messages, args.chatId)}

\* case 'session_continue'
SessionContinue(args) ==
  {[Returned(context) EXCEPT !.rows = context.messages] :
     context \in continueContext(messages, args.chatId, OrElse(args.topic, DefaultTopic),
                                 OrElse(TruthyNumber(args.limit), 20))}

\* case 'bridge_prepare_message': the arguments parseTelegramText is given.
BridgePrepareMessage(args) ==
  {Returned([text |-> OrElse(args.text, ""),
             replyMode |-> IF args.mode = Some("auto") THEN "auto" ELSE "manual",
             topic |-> profile.topic, agent |-> profile.agent,
             model |-> getSelectedModel(selectedModel, args.chatId,
                                        OrElse(TruthyString(args.topic), DefaultTopic))]) :
     profile \in getCurrentProfile(messages, args.chatId,
                                   OrElse(TruthyString(args.topic), DefaultTopic))}

\* case 'bridge_get_start_message'
BridgeGetStartMessage(args) == {Returned("start message")}

\* case 'copilot_list_models'
CopilotListModels(args) == {Returned(CatalogModels)}

\* case 'copilot_select_model'
CopilotSelectModel(args) ==
  IF OrElse(args.modelId, "") \notin CatalogModels
  THEN {Thrown("Model not found in catalog")}
  ELSE {[Returned([chatId |-> args.chatId, topic |-> OrElse(args.topic, DefaultTopic),
                   modelId |-> args.modelId[1]])
           EXCEPT !.selectedModel =
             setSelectedModel(selectedModel, args.chatId,
                              OrElse(args.topic, DefaultTopic), args.modelId[1])]}

\* case 'copilot_get_selected_model'
CopilotGetSelectedModel(args) ==
  {Returned([chatId |-> args.chatId, topic |-> OrElse(args.topic, DefaultTopic),
             model |-> getSelectedModel(selectedModel, args.chatId,
                                        OrElse(args.topic, DefaultTopic))])}

\* case 'bridge_get_offset'
BridgeGetOffset(args) == {Returned([offset |-> getOffset(bridgeState)])}

\* case 'bridge_set_offset'
BridgeSetOffset(args) ==
  {[Returned([offset |-> OrElse(args.offset, 0)])
      EXCEPT !.bridgeState = setOffset(bridgeState, OrElse(args.offset, 0), now)]}

\* default
UnknownTool(args) == {Thrown("Unknown tool")}

\* callTool(name, args): what the call can come to, with or without a
\* configured token.
callTool(name, args, token) ==
  CASE callToolCase(name) = "telegram_fetch_updates" -> TelegramFetchUpdates(args, token)
    [] callToolCase(name) = "telegram_send_message" -> TelegramSendMessage(args, token)
    [] callToolCase(name) = "session_append" -> SessionAppend(args)
    [] callToolCase(name) = "session_get_history" -> SessionGetHistory(args)
    [] callToolCase(name) = "session_search" -> SessionSearch(args)
    [] callToolCase(name) = "session_list_threads" -> SessionListThreads(args)
    [] callToolCase(name) = "session_continue" -> SessionContinue(args)
    [] callToolCase(name) = "bridge_prepare_message" -> BridgePrepareMessage(args)
    [] callToolCase(name) = "bridge_get_start_message" -> BridgeGetStartMessage(args)
    [] callToolCase(name) = "copilot_list_models" -> CopilotListModels(args)
    [] callToolCase(name) = "copilot_select_model" -> CopilotSelectModel(args)
    [] callToolCase(name) = "copilot_get_selected_model" -> CopilotGetSelectedModel(args)
    [] callToolCase(name) = "bridge_get_offset" -> BridgeGetOffset(args)
    [] callToolCase(name) = "bridge_set_offset" -> BridgeSetOffset(args)
    [] OTHER -> UnknownTool(args)

\* ------------------------------------------------------ what a client sends
NoArguments == {[none |-> None]}

\* The arguments objects the model's client sends to the tools of a case.
ToolArguments(case) ==
  CASE case = "telegram_fetch_updates" -> [offset : {None, Some(5)}]
    [] case = "telegram_send_message" -> [chatId : {1}, text : {Some("hi")}]
    [] case = "session_append" ->
         { [chatId |-> 1, topic |-> None, role |-> None,
            content |-> Some(<<"a", "b">>), agent |-> None],
           [chatId |-> 2, topic |-> Some("work"), role |-> Some("owner"),
            content |-> Some(<<"A">>), agent |-> Some("coder")] }
    [] case = "session_get_history" ->
         [chatId : Chats, topic : {None, Some("work")}, limit : {None, Some(0), Some(1)}]
    [] case = "session_search" ->
         [chatId : Chats, keyword : {None, Some(<<"a">>)}, limit : {None, Some(1)}]
    [] case = "session_list_threads" -> [chatId : {None, Some(1)}]
    [] case = "session_continue" -> [chatId : {1}, topic : {None, Some("work")}, limit : {None}]
    [] case = "bridge_prepare_message" ->
         [chatId : {1}, text : {Some("hi")}, topic : {None}, mode : {None, Some("auto")}]
    [] case = "copilot_select_model" ->
         [chatId : {1}, topic : {None}, modelId : {None, Some("claude"), Some("gpt-9")}]
    [] case = "copilot_get_selected_model" -> [chatId : {1}, topic : {None, Some("work")}]
    [] case = "bridge_set_offset" -> [offset : {None, Some(5)}]
    [] OTHER -> NoArguments

\* The tools/call request of a name.
ToolsCallRequest(name) ==
  [kind |-> "object", jsonrpc |-> "2.0", method |-> "tools/call", tool |-> name,
   id |-> "1", wide |-> 0, echo |-> FALSE]

InitializeRequest ==
  [kind |-> "object", jsonrpc |-> "2.0", method |-> "initialize", tool |-> "",
   id |-> "1", wide |-> 0, echo |-> FALSE]

\* The response handleRequest makes of what callTool came to.
ToolsCallResponse(name, outcome) ==
  IF outcome.thrown THEN handlerFailure(ToolsCallRequest(name), outcome.message)
  ELSE ResultResponse(ToolsCallRequest(name), outcome.value)

\* What a handled request leaves in lastCall.  refused tells that the
\* request, or one before it, failed for the missing token.
Handled(op, query, rows, response) ==
  [Called(op, query, rows, response) EXCEPT
     !.refused = @ \/ (response.kind = "error" /\ response.what = TokenRequired)]

\* runMcpServer with or without TELEGRAM_BOT_TOKEN in the environment.
ToolInit ==
  /\ ServerIdle
  /\ DaemonIdle
  /\ telegramBotToken \in {token \in BOOLEAN : loadConfig(FALSE, token)}
  /\ messages = {}
  /\ nextId = 1
  /\ now = 0
  /\ telegramSent = 0
  /\ bridgeState = {}
  /\ selectedModel = {}
  /\ lastCall = NoCall

\* handleRequest for an initialize request.
ToolInitialize ==
  /\ lastCall' = Handled("initialize", <<>>, <<>>, handleRequest(InitializeRequest))
  /\ UNCHANGED <<serverVars, daemonVars, telegramBotToken, messages, nextId, now, telegramSent,
                 bridgeState, selectedModel>>

\* handleRequest for a tools/call request whose name selects the given case
\* of callTool.
ToolsCall(case, name, args) ==
  /\ callToolCase(name) = case
  /\ \E outcome \in callTool(name, args, telegramBotToken) :
       /\ outcome.nextId <= MaxToolAppends + 1
       /\ outcome.telegramSent <= MaxSent
       /\ messages' = outcome.messages
       /\ nextId' = outcome.nextId
       /\ telegramSent' = outcome.telegramSent
       /\ bridgeState' = outcome.bridgeState
       /\ selectedModel' = outcome.selectedModel
       /\ lastCall' = Handled(name, args, outcome.rows, ToolsCallResponse(name, outcome))
  /\ UNCHANGED <<serverVars, daemonVars, telegramBotToken, now>>

\* One tools/call request per step: every case of callTool under each of its
\* labels, and the default case under every name.
ToolNext ==
  \/ ToolInitialize
  \/ \E name \in LabelsOf("telegram_fetch_updates") : \E args \in ToolArguments("telegram_fetch_updates") :
       ToolsCall("telegram_fetch_updates", name, args)
  \/ \E name \in LabelsOf("telegram_send_message") : \E args \in ToolArguments("telegram_send_message") :
       ToolsCall("telegram_send_message", name, args)
  \/ \E name \in LabelsOf("session_append") : \E args \in ToolArguments("session_append") :
       ToolsCall("session_append", name, args)
  \/ \E name \in LabelsOf("session_get_history") : \E args \in ToolArguments("session_get_history") :
       ToolsCall("session_get_history", name, args)
  \/ \E name \in LabelsOf("session_search") : \E args \in ToolArguments("session_search") :
       ToolsCall("session_search", name, args)
  \/ \E name \in LabelsOf("session_list_threads") : \E args \in ToolArguments("session_list_threads") :
       ToolsCall("session_list_threads", name, args)
  \/ \E name \in LabelsOf("session_continue") : \E args \in ToolArguments("session_continue") :
       ToolsCall("session_continue", name, args)
  \/ \E name \in LabelsOf("bridge_prepare_message") : \E args \in ToolArguments("bridge_prepare_message") :
       ToolsCall("bridge_prepare_message", name, args)
  \/ \E name \in LabelsOf("bridge_get_start_message") : \E args \in ToolArguments("bridge_get_start_message") :
       ToolsCall("bridge_get_start_message", name, args)
  \/ \E name \in LabelsOf("copilot_list_models") : \E args \in ToolArguments("copilot_list_models") :
       ToolsCall("copilot_list_models", name, args)
  \/ \E name \in LabelsOf("copilot_select_model") : \E args \in ToolArguments("copilot_select_model") :
       ToolsCall("copilot_select_model", name, args)
  \/ \E name \in LabelsOf("copilot_get_selected_model") : \E args \in ToolArguments("copilot_get_selected_model") :
       ToolsCall("copilot_get_selected_model", name, args)
  \/ \E name \in LabelsOf("bridge_get_offset") : \E args \in ToolArguments("bridge_get_offset") :
       ToolsCall("bridge_get_offset", name, args)
  \/ \E name \in LabelsOf("bridge_set_offset") : \E args \in ToolArguments("bridge_set_offset") :
       ToolsCall("bridge_set_offset", name, args)
  \/ \E name \in CalledNames : \E args \in ToolArguments("default") :
       ToolsCall("default", name, args)

ToolSpec == ToolInit /\ [][ToolNext]_vars

\* ------------------------------------------------------------------ C13
\* The dotted form of the name of each tool, in the order of tools.
LegacyNames ==
  << "telegram.fetch_updates", "telegram.send_message", "session.append",
     "session.get_history", "session.search", "session.list_threads",
     "session.continue", "bridge.prepare_message", "bridge.get_start_message",
     "copilot.list_models", "copilot.select_model", "copilot.get_selected_model",
     "bridge.get_offset", "bridge.set_offset" >>

UnknownToolResponse(response) == response.kind = "error" /\ response.what = "Unknown tool"

\* C13: in every state and for all arguments a call by the dotted name of a
\* tool can come to exactly what the call by its underscore name can come
\* to, in the value returned, the error thrown and the state left; and no
\* name of tools/list is answered with 'Unknown tool'.
C13_LegacyNameCallsSameHandler ==
  /\ \A k \in 1..Len(tools) : \A args \in ToolArguments(tools[k]) :
       /\ callTool(LegacyNames[k], args, telegramBotToken)
            = callTool(tools[k], args, telegramBotToken)
       /\ \A outcome \in callTool(tools[k], args, telegramBotToken) :
            ~(outcome.thrown /\ outcome.message = "Unknown tool")
  /\ (\E k \in 1..Len(tools) : lastCall.op \in {tools[k], LegacyNames[k]})
       => ~UnknownToolResponse(lastCall.value)

\* A call of session.append has stored a message after a call of
\* copilot.select_model has remembered a model.
C13_Witness ==
  /\ lastCall.op = "session.append"
  /\ lastCall.value.kind = "result"
  /\ messages # {}
  /\ selectedModel # {}

\* ------------------------------------------------------------------ C14
TelegramNames == LabelsOf("telegram_fetch_updates") \cup LabelsOf("telegram_send_message")

\* C14: without a token the server is up; it answers initialize with a
\* result, answers every tool that is not a Telegram tool as it does with a
\* token, and answers each call of a Telegram tool with an error of code
\* -32000 that leaves the store and the Telegram collaborator as they were.
C14_MissingTokenDisablesTelegramToolsOnly ==
  [][~telegramBotToken =>
       /\ lastCall'.op = "initialize" =>
            /\ lastCall'.value.kind = "result"
            /\ lastCall'.value.what = "initialize"
       /\ lastCall'.op \in TelegramNames =>
            /\ lastCall'.value.kind = "error"
            /\ lastCall'.value.code = -32000
            /\ lastCall'.value.id = "1"
            /\ UNCHANGED <<messages, nextId, telegramSent, bridgeState, selectedModel>>
       /\ lastCall'.op \in CalledNames \ TelegramNames =>
            \E outcome \in callTool(lastCall'.op, lastCall'.query, TRUE) :
              /\ lastCall'.value = ToolsCallResponse(lastCall'.op, outcome)
              /\ messages' = outcome.messages
              /\ nextId' = outcome.nextId
              /\ telegramSent' = outcome.telegramSent
              /\ bridgeState' = outcome.bridgeState
              /\ selectedModel' = outcome.selectedModel]_vars

\* Without a token a Telegram tool has been refused and a later
\* session_append has stored its message.
C14_Witness ==
  /\ ~telegramBotToken
  /\ lastCall.refused
  /\ lastCall.op = "session_append"
  /\ lastCall.value.kind = "result"
  /\ messages # {}

\* ------------------------------------------------------------------ C38
\* The roles of a message of the session log.
Roles == {"user", "assistant", "system"}

\* C38: every stored message has role user, assistant or system, whatever
\* arguments session_append was called with.
C38_StoredRolesAreKnown ==
  \A r \in messages : r.role \in Roles

\* ====================================================== telegram.ts, main
\* A sixth specification: the polling daemon.  Telegram receives updates for
\* the bot; main polls them, handles each with handleMessage and stores the
\* offset after a batch; a send can fail; the daemon can be stopped while it
\* sleeps and started again.  The messages are texts: none has a document.

\* Largest number of updates Telegram receives in a run.
MaxUpdates == 3

\* Largest number of requests to the Telegram API that fail in a run.
MaxFailures == 1

\* Largest number of times the daemon is started again.
MaxRestarts == 1

\* The texts users send.
DaemonTexts == {<<"/topic", " ", "work">>, <<"hi!">>, <<"/history">>}

\* update.message of an update: absent, or a text message of a chat.
UpdateMessages ==
  {None} \cup {Some([chatId |-> chatId, text |-> text]) : chatId \in Chats, text \in DaemonTexts}

\* Telegram Bot API, getUpdates: the updates held for the bot, without those
\* an offset confirms, which are the ones of a smaller update_id.
getUpdates(updates, offset) ==
  IF offset = None THEN updates
  ELSE SelectSeq(updates, LAMBDA update : update.update_id >= offset[1])

\* Math.max
Max(a, b) == IF a > b THEN a ELSE b

\* offset || undefined
Truthy(number) == IF number = 0 THEN None ELSE Some(number)

\* handleMessage up to its sendChunks: what it can leave in the store, the
\* message it appended and what it parsed.  The parser of topic.ts has four
\* parameters and knows the commands topic, agent, history and mode.
handleMessage(rows, rowId, message, nowTime) ==
  UNION {
    LET parsed == parseTelegramText(Some(message.text), Config,
                                    Some(profile.topic), Some(profile.agent))
        line   == [chatId |-> message.chatId, topic |-> parsed.topic,
                   role |-> IF parsed.command = None THEN "user" ELSE "system",
                   content |-> parsed.text, agent |-> parsed.agent]
    IN  IF parsed.command = Some("history")
        THEN {[messages |-> rows, nextId |-> rowId, appended |-> None,
               parsed |-> parsed, records |-> records] :
                records \in IF parsed.keyword[1] # <<>>
                            THEN search(rows, [chatId |-> message.chatId,
                                               keyword |-> parsed.keyword[1],
                                               limit |-> Some(8)])
                            ELSE getHistory(rows, [chatId |-> message.chatId,
                                                   topic |-> Some(parsed.topic),
                                                   limit |-> Some(8)])}
        ELSE {[messages |-> table, nextId |-> rowId + 1,
               appended |-> Some(InsertedRow(rowId, line, nowTime)),
               parsed |-> parsed, records |-> <<>>] :
                table \in append(rows, rowId, line, nowTime)}
    : profile \in getCurrentProfile(rows, message.chatId, DefaultTopic)}

\* main up to its loop: loadConfig() needs the token; offset is read from
\* the store, which is new.
DaemonInit ==
  /\ ServerIdle
  /\ telegramBotToken \in {token \in BOOLEAN : loadConfig(TRUE, token)}
  /\ messages = {}
  /\ nextId = 1
  /\ now = 0
  /\ telegramSent = 0
  /\ bridgeState = {}
  /\ selectedModel = {}
  /\ lastCall = NoCall
  /\ telegram = [updates |-> <<>>, received |-> 0, failures |-> 0]
  /\ daemon = [pc |-> "poll", offset |-> getOffset({}), batch |-> <<>>, next |-> 1,
               restarts |-> 0, seen |-> 0]
  /\ handled = <<>>
  /\ copilot = NoCopilot

daemonOthers ==
  <<serverVars, telegramBotToken, selectedModel, copilot>>

\* A user sends a message to the bot, or Telegram has another update for it.
TelegramReceives(message) ==
  /\ telegram.received < MaxUpdates
  /\ telegram' = [telegram EXCEPT
                    !.received = @ + 1,
                    !.updates = Append(@, [update_id |-> telegram.received + 1,
                                           message |-> message])]
  /\ UNCHANGED <<daemonOthers, messages, nextId, now, telegramSent, bridgeState, lastCall,
                 daemon, handled>>

\* await telegram.getUpdates(offset || undefined) returns.
DaemonPoll ==
  /\ daemon.pc = "poll"
  /\ LET updates == getUpdates(telegram.updates, Truthy(daemon.offset))
     IN  /\ telegram' = [telegram EXCEPT !.updates = updates]
         /\ daemon' = [daemon EXCEPT !.batch = updates, !.next = 1,
                                     !.pc = IF updates = <<>> THEN "poll" ELSE "handle",
                                     !.seen = IF updates = <<>> THEN @
                                              ELSE Max(@, updates[Len(updates)].update_id)]
  /\ UNCHANGED <<daemonOthers, messages, nextId, now, telegramSent, bridgeState, lastCall,
                 handled>>

\* await telegram.getUpdates(...) throws: the catch logs and main sleeps.
DaemonPollFails ==
  /\ daemon.pc = "poll"
  /\ telegram.failures < MaxFailures
  /\ telegram' = [telegram EXCEPT !.failures = @ + 1]
  /\ UNCHANGED <<daemonOthers, messages, nextId, now, telegramSent, bridgeState, lastCall,
                 daemon, handled>>

\* The update the for loop is at.
CurrentUpdate == daemon.batch[daemon.next]

\* Mutant: an update without message.chat.id is passed over without the
\* offset being moved behind it.
DaemonSkipKeepsOffset ==
  /\ daemon.pc = "handle"
  /\ daemon.next <= Len(daemon.batch)
  /\ CurrentUpdate.message = None
  /\ daemon' = [daemon EXCEPT !.next = @ + 1]
  /\ UNCHANGED <<daemonOthers, messages, nextId, now, telegramSent, bridgeState, lastCall,
                 telegram, handled>>

\* An update without message.chat.id is passed over.
DaemonSkip ==
  /\ daemon.pc = "handle"
  /\ daemon.next <= Len(daemon.batch)
  /\ CurrentUpdate.message = None
  /\ daemon' = [daemon EXCEPT !.offset = Max(@, CurrentUpdate.update_id + 1),
                              !.next = @ + 1]
  /\ UNCHANGED <<daemonOthers, messages, nextId, now, telegramSent, bridgeState, lastCall,
                 telegram, handled>>

\* await handleMessage(...) for the update the loop is at.  When its send
\* fails it throws, and the catch of main ends the loop over the batch.
DaemonHandle(sent) ==
  /\ daemon.pc = "handle"
  /\ daemon.next <= Len(daemon.batch)
  /\ CurrentUpdate.message # None
  /\ ~sent => telegram.failures < MaxFailures
  /\ \E outcome \in handleMessage(messages, nextId, CurrentUpdate.message[1], now) :
       /\ messages' = outcome.messages
       /\ nextId' = outcome.nextId
       /\ handled' = Append(handled, [update_id |-> CurrentUpdate.update_id,
                                      chatId |-> CurrentUpdate.message[1].chatId,
                                      command |-> outcome.parsed.command,
                                      topic |-> outcome.parsed.topic,
                                      sent |-> sent])
       /\ lastCall' = [Called("handleMessage", CurrentUpdate, outcome.records, outcome.parsed)
                         EXCEPT !.appended = IF outcome.appended = None THEN @
                                             ELSE outcome.appended]
  /\ IF sent
     THEN /\ telegramSent' = telegramSent + 1
          /\ daemon' = [daemon EXCEPT !.offset = Max(@, CurrentUpdate.update_id + 1),
                                      !.next = @ + 1]
          /\ UNCHANGED telegram
     ELSE /\ telegram' = [telegram EXCEPT !.failures = @ + 1]
          /\ daemon' = [daemon EXCEPT !.pc = "poll", !.batch = <<>>, !.next = 1]
          /\ UNCHANGED telegramSent
  /\ UNCHANGED <<daemonOthers, now, bridgeState>>

\* After the loop over a batch: store.setOffset(offset), then main sleeps.
DaemonPersists ==
  /\ daemon.pc = "handle"
  /\ daemon.next > Len(daemon.batch)
  /\ bridgeState' = setOffset(bridgeState, daemon.offset, now)
  /\ daemon' = [daemon EXCEPT !.pc = "poll", !.batch = <<>>, !.next = 1]
  /\ UNCHANGED <<daemonOthers, messages, nextId, now, telegramSent, lastCall, telegram,
                 handled>>

\* The daemon is stopped while it sleeps and started again: main reads the
\* offset from the store.
DaemonRestarts ==
  /\ daemon.pc = "poll"
  /\ daemon.restarts < MaxRestarts
  /\ daemon' = [daemon EXCEPT !.offset = getOffset(bridgeState), !.restarts = @ + 1]
  /\ UNCHANGED <<daemonOthers, messages, nextId, now, telegramSent, bridgeState, lastCall,
                 telegram, handled>>

\* Time passes.
DaemonClockTicks ==
  /\ now < MaxClock
  /\ now' = now + 1
  /\ UNCHANGED <<daemonOthers, messages, nextId, telegramSent, bridgeState, lastCall,
                 telegram, daemon, handled>>

DaemonNext ==
  \/ \E message \in UpdateMessages : TelegramReceives(message)
  \/ DaemonPoll
  \/ DaemonPollFails
  \/ DaemonSkip
  \/ \E sent \in BOOLEAN : DaemonHandle(sent)
  \/ DaemonPersists
  \/ DaemonRestarts
  \/ DaemonClockTicks

DaemonSpec == DaemonInit /\ [][DaemonNext]_vars

\* ------------------------------------------------------------------ C26
\* C26: handleMessage is never called twice for one update_id, whether a
\* send failed after the append or the daemon started again from the stored
\* offset.
C26_NoUpdateHandledTwice ==
  \A i, j \in 1..Len(handled) :
    i # j => handled[i].update_id # handled[j].update_id

\* ------------------------------------------------------------------ C27
\* The place in handled of the last /topic command of the chat before place
\* j, 0 when there is none.
LastSwitch(j) ==
  LET switches == {i \in 1..(j - 1) : /\ handled[i].chatId = handled[j].chatId
                                      /\ handled[i].command = Some("topic")}
  IN  IF switches = {} THEN 0 ELSE CHOOSE i \in switches : \A k \in switches : k <= i

\* C27: a plain message handled after a /topic X of its chat is stored under
\* topic X, the topic of the last such command.
C27_PlainMessagesFollowTopicSwitch ==
  \A j \in 1..Len(handled) :
    (handled[j].command = None /\ LastSwitch(j) # 0)
      => handled[j].topic = handled[LastSwitch(j)].topic

\* ------------------------------------------------------------------ C39
\* Every update of the batch that has a message was handled and answered.
BatchHandled ==
  \A k \in 1..Len(daemon.batch) :
    daemon.batch[k].message # None =>
      \E j \in 1..Len(handled) :
        handled[j].update_id = daemon.batch[k].update_id /\ handled[j].sent

\* C39: the offset of a running daemon never decreases and neither does the
\* stored one; a value is stored only at the end of a batch that is not
\* empty and of which every update was handled without error or passed
\* over, and it is the largest update_id the daemon was given, plus one.
C39_OffsetAdvancesPastHandledBatches ==
  [][/\ daemon'.restarts = daemon.restarts => daemon'.offset >= daemon.offset
     /\ getOffset(bridgeState') >= getOffset(bridgeState)
     /\ bridgeState' # bridgeState =>
          /\ daemon.batch # <<>>
          /\ daemon.next > Len(daemon.batch)
          /\ BatchHandled
          /\ getOffset(bridgeState') = daemon.seen + 1]_vars

\* The offset stored is behind the second update, after a send had failed
\* and the batch was fetched again.
C39_Witness ==
  /\ bridgeState # {}
  /\ getOffset(bridgeState) = daemon.seen + 1
  /\ daemon.seen >= 2
  /\ daemon.pc = "poll"
  /\ \E j \in 1..Len(handled) : ~handled[j].sent

\* ======================================================== copilotClient.ts
\* The numbers of the environment are fractions n/d: Number(raw) accepts
\* "1.5" as well as "2".
MaxCalls == 2

Fraction(n, d) == [n |-> n, d |-> d]

Whole(n) == Fraction(n, 1)

AtMost(a, b) == a.n * b.d <= b.n * a.d

\* process.env: each variable is absent or a numeral.
CopilotEnvironments ==
  [COPILOT_API_KEY : BOOLEAN,
   COPILOT_MAX_RETRIES : {None, Some(Whole(1)), Some(Whole(2)), Some(Fraction(3, 2)),
                          Some(Fraction(5, 2)), Some(Whole(9))},
   COPILOT_RETRY_BASE_MS : {None, Some(Whole(100)), Some(Whole(50))}]

\* asNumber: the fallback for an absent variable, the number when it lies in
\* [min, max]; asNumberThrows says when it throws instead.
asNumberThrows(raw, min, max) ==
  /\ raw # None
  /\ \/ ~AtMost(Whole(min), raw[1])
     \/ ~AtMost(raw[1], Whole(max))

asNumber(raw, fallback, min, max) ==
  IF raw = None THEN Whole(fallback) ELSE raw[1]

\* new CopilotClient(config): the fields generateReply reads.
CopilotConstructorThrows(env) ==
  \/ asNumberThrows(env.COPILOT_MAX_RETRIES, 1, 8)
  \/ asNumberThrows(env.COPILOT_RETRY_BASE_MS, 100, 10000)

CopilotClient(env) ==
  [NoCopilot EXCEPT
     !.pc = "idle",
     !.apiKey = env.COPILOT_API_KEY,
     !.maxRetries = asNumber(env.COPILOT_MAX_RETRIES, 3, 1, 8),
     !.retryBaseMs = asNumber(env.COPILOT_RETRY_BASE_MS, 600, 100, 10000)]

isEnabled(client) == client.apiKey

ReplyInit ==
  /\ ServerIdle
  /\ telegramBotToken = TRUE
  /\ messages = {}
  /\ nextId = 1
  /\ now = 0
  /\ telegramSent = 0
  /\ bridgeState = {}
  /\ selectedModel = {}
  /\ lastCall = NoCall
  /\ telegram = [updates |-> <<>>, received |-> 0, failures |-> 0]
  /\ daemon = [pc |-> "", offset |-> 0, batch |-> <<>>, next |-> 1, restarts |-> 0,
               seen |-> 0]
  /\ handled = <<>>
  /\ \E env \in CopilotEnvironments :
       /\ ~CopilotConstructorThrows(env)
       /\ copilot = CopilotClient(env)

replyOthers ==
  <<serverVars, storeVars, telegramBotToken, telegram, daemon, handled>>

\* writeUsageLog: one line appended to the usage log.
writeUsageLog(client, status, attempt) ==
  [client EXCEPT !.usageLog = Append(@, [status |-> status, attempt |-> attempt]),
                 !.events = Append(@, "log")]

\* The end of generateReply after its loop: the failure record, then the
\* throw.
GenerationFailed(client) ==
  [writeUsageLog(client, "failure", client.maxRetries) EXCEPT
     !.pc = "thrown", !.events = Append(@, "throw")]

\* generateReply up to its first await: the throw without a key, or the
\* first fetch (maxRetries is at least 1).
GenerateReply ==
  /\ copilot.pc \in {"idle", "returned", "thrown"}
  /\ copilot.calls < MaxCalls
  /\ copilot' =
       IF ~isEnabled(copilot)
         THEN [copilot EXCEPT !.pc = "thrown", !.calls = @ + 1,
                              !.events = <<"throw">>, !.waits = <<>>]
         ELSE [copilot EXCEPT !.pc = "fetch", !.calls = @ + 1, !.attempt = 1,
                              !.events = <<"attempt">>, !.waits = <<>>]
  /\ UNCHANGED replyOthers

\* The response is ok and its content is not empty: the success record,
\* then the return.
AttemptSucceeds ==
  /\ copilot.pc = "fetch"
  /\ copilot' =
       [writeUsageLog([copilot EXCEPT !.events = Append(@, "ok")], "success",
                      Whole(copilot.attempt))
          EXCEPT !.pc = "returned", !.events = Append(@, "return")]
  /\ UNCHANGED replyOthers

\* fetch rejects or is aborted, the status is not ok, or the content is
\* empty: the catch block, up to the sleep or past the loop.
AttemptFails ==
  /\ copilot.pc = "fetch"
  /\ LET failed == [copilot EXCEPT !.events = Append(@, "failed")]
         ms == Fraction(copilot.retryBaseMs.n * 2 ^ (copilot.attempt - 1),
                        copilot.retryBaseMs.d)
     IN  copilot' =
           IF AtMost(copilot.maxRetries, Whole(copilot.attempt))
             THEN GenerationFailed(failed)
             ELSE [failed EXCEPT !.pc = "sleep", !.events = Append(@, "wait"),
                                 !.waits = Append(@, ms)]
  /\ UNCHANGED replyOthers

\* The timer of sleep fires: attempt += 1 and the test of the for loop.
SleepEnds ==
  /\ copilot.pc = "sleep"
  /\ LET attempt == copilot.attempt + 1
     IN  copilot' =
           IF AtMost(Whole(attempt), copilot.maxRetries)
             THEN [copilot EXCEPT !.pc = "fetch", !.attempt = attempt,
                                  !.events = Append(@, "attempt")]
             ELSE GenerationFailed([copilot EXCEPT !.attempt = attempt])
  /\ UNCHANGED replyOthers

ReplyNext ==
  \/ GenerateReply
  \/ AttemptSucceeds
  \/ AttemptFails
  \/ SleepEnds

\* Every attempt ends and every timer fires; nobody has to call again.
ReplySpec ==
  /\ ReplyInit
  /\ [][ReplyNext]_vars
  /\ WF_vars(AttemptSucceeds \/ AttemptFails)
  /\ WF_vars(SleepEnds)

CountOf(events, kind) == Cardinality({i \in 1..Len(events) : events[i] = kind})

\* What the events of a finished call of generateReply must look like.
ReplyAsDocumented(client) ==
  LET events == client.events
      last == Len(events)
  IN  /\ AtMost(Whole(CountOf(events, "attempt")), client.maxRetries)
      /\ \A i \in 1..last :
           /\ events[i] = "ok" =>
                /\ i + 2 = last
                /\ events[i + 1] = "log"
                /\ events[i + 2] = "return"
           /\ events[i] = "wait" =>
                /\ events[i - 1] = "failed"
                /\ i < last
                /\ events[i + 1] = "attempt"
           /\ events[i] = "failed" =>
                \/ events[i + 1] = "wait"
                \/ /\ i + 2 = last
                   /\ events[i + 1] = "log"
                   /\ events[i + 2] = "throw"
                   /\ ~AtMost(Whole(CountOf(events, "attempt") + 1), client.maxRetries)
      /\ \A k \in 1..Len(client.waits) :
           client.waits[k] = Fraction(client.retryBaseMs.n * 2 ^ (k - 1),
                                      client.retryBaseMs.d)
      /\ CountOf(events, "log") = 1
      /\ Len(client.usageLog) = client.calls

\* C40: with an API key, a call of generateReply makes at most maxRetries
\* attempts, returns at the first successful one, waits
\* retryBaseMs * 2^(attempt-1) between consecutive attempts and not after
\* the last one, throws after the final failed attempt, writes exactly one
\* usage-log record, and ends when every attempt ends.
C40_GenerateReplyRetriesAsDocumented ==
  /\ [](isEnabled(copilot) /\ copilot.pc \in {"returned", "thrown"} =>
          ReplyAsDocumented(copilot))
  /\ (copilot.pc \in {"fetch", "sleep"}) ~> (copilot.pc \in {"returned", "thrown"})

============================================================================
